---- MODULE Spec2Model ----
(***************************************************************************)
(* Federation engine of the tezit relay: the outbound delivery queue       *)
(* (services/federationOutbound), the discovery cache, the trust registry  *)
(* and the inbound acceptance pipeline (routes/federation).                *)
(*                                                                         *)
(* Time is counted in minutes.  NULL columns are written Null (-1).        *)
(***************************************************************************)
EXTENDS Integers, Sequences, FiniteSets, TLC

VARIABLES
    now,              \* wall clock (Date.now()), minutes
    config,           \* config.federationEnabled, config.federationMode
    federatedServers, \* table federated_servers, keyed by host
    cache,            \* discovery.ts in-memory cache: host -> expiresAt
    federationOutbox, \* table federation_outbox, id = index
    federatedTez,     \* table federated_tez (sequence of rows)
    th,               \* position of every running route()/sweep() call
    faults,           \* persistence/audit writes that have thrown so far
    obs,              \* what happened to each outbox entry (observations only)
    welcomeSentTo,    \* welcomeCookie.ts dedup set
    welcomes,         \* welcome deliveries begun, per target host
    welcomePost,      \* per target host: how far its welcome delivery has come
    contacts,         \* table contacts: the registered tezAddresses
    tez,              \* table tez (rows created by the inbox)
    tezContext,       \* table tez_context
    tezRecipients,    \* table tez_recipients
    req,              \* position of every running POST /federation/inbox request
    served,           \* inbox requests received so far
    accepted,         \* bundle hashes some request was answered 200/207 for
    sigIn,            \* the request, keypair and clock handed to signRequest
    wire,             \* the signed request as it travels to the verifier
    verdict,          \* the last call of verifyRequest and what it returned
    built,            \* the federation bundle createBundle returned, as it now is
    validated,        \* the last call of validateBundle and what it returned
    dns,              \* which string each host is and what resolve4 answers for it
    discovered,       \* the last call of discoverServer and what it returned
    reply,            \* the last response of a registry endpoint
    keyFiles,         \* DATA_DIR: server.pub and server.key, Absent or their content
    identityCache,    \* identity.ts: _identity
    idResult,         \* the last call of initIdentity/getIdentity and its outcome
    keygen            \* keypairs generateKeyPairSync has produced so far

welcomeVars == <<welcomeSentTo, welcomes, welcomePost>>
outVars == <<cache, federationOutbox, th, faults, obs>>
inVars == <<contacts, tez, tezContext, tezRecipients, req, served, accepted>>
sigVars == <<sigIn, wire, verdict>>
bundleVars == <<built, validated>>
discVars == <<dns, discovered>>
apiVars == <<reply>>
idVars == <<keyFiles, identityCache, idResult, keygen>>
libVars == <<sigVars, bundleVars, discVars, apiVars, idVars>>
vars == <<now, config, federatedServers, federatedTez, welcomeVars, outVars, inVars,
          libVars>>

----------------------------------------------------------------------------
(* Bounds of the model *)

MaxEntries == 1
MaxTime == 160
MaxFaults == 1
MaxRequests == 2
MaxWelcomes == 2
MaxShared == 2
MaxKeys == 3

----------------------------------------------------------------------------
(* Program constants *)

Null == -1
NoPeer == [serverId |-> "", publicKey |-> "", trustLevel |-> "none",
           firstSeenAt |-> Null, lastSeenAt |-> Null]

RemoteHosts == {"h1", "h2"}
TrustLevels == {"pending", "trusted", "blocked"}

\* const RETRY_DELAYS_MS = [60_000, 5 * 60_000, 30 * 60_000, 2 * 60 * 60_000, 12 * 60 * 60_000]
RETRY_DELAYS_MS == <<1, 5, 30, 120, 720>>
MAX_ATTEMPTS == Len(RETRY_DELAYS_MS)
CACHE_TTL_MS == 60
SweepLimit == 50

Routes == {"route"}
Sweeps == {"sweep1", "sweep2"}
Procs == Routes \cup Sweeps

\* identity.host, config.relayHost
LocalHost == "local"

\* an address is user@host; host "" stands for an address without '@'
Addr(user, host) == [user |-> user, host |-> host]


Reqs == {1, 2}
NoBundle == [wellFormed |-> FALSE, hash |-> 0, to |-> <<>>, sender_server |-> "",
             sender_server_id |-> "", context |-> <<>>]
\* what a request was authenticated with: the keyId and the signature it carried
NoAuth == [keyId |-> "", signedBy |-> "", intact |-> FALSE]
\* refused: the bundle_hash last answered RECIPIENTS_NOT_FOUND in this slot
NoReq == [pc |-> "idle", bundle |-> NoBundle, sender |-> "", todo |-> <<>>,
          valid |-> <<>>, notFound |-> <<>>, localTezId |-> 0, resp |-> 0, code |-> "",
          writes |-> 0, replay |-> FALSE, auth |-> NoAuth, peerReject |-> "",
          first |-> "", refused |-> 0]

Idle == [pc |-> "idle", tez |-> 0, created |-> 0, cur |-> 0, snap |-> 0, at |-> 0,
         todo |-> <<>>, halted |-> FALSE, remote |-> <<>>, local |-> <<>>,
         recipients |-> <<>>]

Terminal(status) == status \in {"delivered", "expired"}

Registered(h) == federatedServers[h] # NoPeer

----------------------------------------------------------------------------
(* Helpers *)

Limit(s, n) == IF Len(s) <= n THEN s ELSE SubSeq(s, 1, n)

Min(a, b) == IF a <= b THEN a ELSE b

\* ids of all rows of federation_outbox, in rowid order
OutboxIds == [i \in 1..Len(federationOutbox) |-> i]

Bump(n) == Min(n + 1, MAX_ATTEMPTS + 2)

\* held: the remote inbox has persisted the entry's bundle; duplicate: it has
\* answered an attempt with the duplicate rejection.
\* per entry: failed attempts so far, whether the remote inbox ever answered
\* 2xx/207, whether a write of one of its attempts threw, the delays scheduled
\* and whether an attempt ever began off schedule (while another attempt was
\* outstanding, or before the retry was due)
NewObs == [failed |-> 0, got2xx |-> FALSE, faulted |-> FALSE, waits |-> {},
           offSchedule |-> FALSE, held |-> FALSE, duplicate |-> FALSE]

----------------------------------------------------------------------------
(* Outbound delivery engine: routeToFederation, processOutboxEntry,       *)
(* processOutboxQueue                                                      *)

\* where a call continues after processOutboxEntry returns: the next host of
\* routeToFederation's loop, the next entry of processOutboxQueue's loop
Return(p) ==
    IF th[p].todo = <<>> THEN Idle
    ELSE IF p \in Routes
         THEN [th[p] EXCEPT !.pc = "insert", !.cur = 0, !.snap = 0, !.at = 0,
                            !.halted = FALSE]
         ELSE [th[p] EXCEPT !.pc = "entry", !.cur = Head(th[p].todo),
                            !.todo = Tail(th[p].todo), !.snap = 0, !.at = 0,
                            !.halted = FALSE]

\* an attempt is under way in call p (between its select and its last write)
InAttempt(p) == th[p].pc \in {"discover", "post", "okInsert", "okAudit", "expAudit"}

\* the host's peer is blocked
Halted(h) == federatedServers[h].trustLevel = "blocked"

RetryDelay(attempts) ==
    IF attempts >= 1 /\ attempts <= Len(RETRY_DELAYS_MS)
    THEN RETRY_DELAYS_MS[attempts]
    ELSE RETRY_DELAYS_MS[Len(RETRY_DELAYS_MS)]

\* the catch block of processOutboxEntry, entered with f faults so far and
\* o the observations of the entry up to the throw
Catch(p, o, f) ==
    LET e == th[p].cur
        attempts == th[p].snap + 1
        delayMs == RetryDelay(attempts)
        o2 == [o EXCEPT !.failed = Bump(@)]
    IN  \/ /\ attempts >= MAX_ATTEMPTS
           /\ federationOutbox' = [federationOutbox EXCEPT ![e] =
                  [@ EXCEPT !.status = "expired", !.attempts = attempts,
                            !.lastAttemptAt = th[p].at, !.error = TRUE]]
           /\ th' = [th EXCEPT ![p].pc = "expAudit"]
           /\ obs' = [obs EXCEPT ![e] = o2]
           /\ faults' = f
        \/ /\ attempts < MAX_ATTEMPTS
           /\ federationOutbox' = [federationOutbox EXCEPT ![e] =
                  [@ EXCEPT !.status = "failed", !.attempts = attempts,
                            !.lastAttemptAt = th[p].at,
                            !.nextRetryAt = now + delayMs, !.error = TRUE]]
           /\ th' = [th EXCEPT ![p] = Return(p)]
           /\ obs' = [obs EXCEPT ![e] =
                  [o2 EXCEPT !.waits = @ \cup {delayMs}]]
           /\ faults' = f
        \/ \* the update itself throws: processOutboxEntry rejects, its caller's loop ends
           /\ f < MaxFaults
           /\ faults' = f + 1
           /\ UNCHANGED federationOutbox
           /\ th' = [th EXCEPT ![p] = Idle]
           /\ obs' = [obs EXCEPT ![e] = [o2 EXCEPT !.faulted = TRUE]]

\* routeToFederation up to its loop: one message, its remote hosts in Map order
StartRoute(p, hosts) ==
    /\ p \in Routes
    /\ th[p].pc = "idle"
    /\ config.federationEnabled
    /\ Len(federationOutbox) + Len(hosts) <= MaxEntries
    /\ th' = [th EXCEPT ![p] = [Idle EXCEPT !.pc = "insert", !.todo = hosts, !.created = now,
                 !.remote = [h \in {hosts[i] : i \in 1..Len(hosts)} |-> <<<<"bob", "@", h>>>>],
                 !.tez = IF federationOutbox = <<>> THEN 1
                         ELSE federationOutbox[Len(federationOutbox)].tezId + 1]]
    /\ UNCHANGED <<now, config, federatedServers, federatedTez, cache, federationOutbox,
                   faults, obs, welcomeVars, inVars, libVars>>

\* addr.indexOf: the first occurrence
FirstIndexOf(addr, part) ==
    IF \E i \in 1..Len(addr) : addr[i] = part
    THEN CHOOSE i \in 1..Len(addr) :
             addr[i] = part /\ \A j \in 1..(i - 1) : addr[j] # part
    ELSE 0

\* an address is the sequence of its parts, "@" a part of its own
LastIndexOf(addr, part) ==
    IF \E i \in 1..Len(addr) : addr[i] = part
    THEN CHOOSE i \in 1..Len(addr) :
             addr[i] = part /\ \A j \in (i + 1)..Len(addr) : addr[j] # part
    ELSE 0

\* addr.slice(atIndex + 1) as one string: the parts after the last "@" (one
\* part, or none when the address ends with "@")
HostPart(addr, atIndex) ==
    IF atIndex = Len(addr) THEN "" ELSE addr[atIndex + 1]

NoGroups == [keys |-> <<>>, get |-> <<>>]

\* remote.get(host) || [], push, remote.set(host, existing): a new key goes to
\* the end of the Map's iteration order, a known key keeps its place
Push(remote, host, addr) ==
    IF host \in DOMAIN remote.get
    THEN [remote EXCEPT !.get = [@ EXCEPT ![host] = Append(@, addr)]]
    ELSE [keys |-> Append(remote.keys, host),
          get |-> [h \in DOMAIN remote.get \cup {host} |->
                      IF h = host THEN <<addr>> ELSE remote.get[h]]]

RECURSIVE PartitionFrom(_, _, _, _)
PartitionFrom(recipients, localHost, i, acc) ==
    IF i > Len(recipients) THEN acc
    ELSE LET addr == recipients[i]
             atIndex == LastIndexOf(addr, "@")
             host == HostPart(addr, atIndex)
         IN  PartitionFrom(recipients, localHost, i + 1,
                 IF atIndex = 0 \/ host = localHost
                 THEN [acc EXCEPT !.local = Append(@, addr)]
                 ELSE [acc EXCEPT !.remote = Push(@, host, addr)])

partitionRecipients(recipients, localHost) ==
    PartitionFrom(recipients, localHost, 1, [local |-> <<>>, remote |-> NoGroups])

\* step 5 of the share handler: partition the recipients and, when some are
\* remote, call routeToFederation (up to its loop)
Share(p, recipients) ==
    /\ p \in Routes
    /\ th[p].pc = "idle"
    /\ config.federationEnabled
    /\ Len(recipients) > 0
    /\ LET parts == partitionRecipients(recipients, LocalHost)
       IN  /\ Len(parts.remote.keys) > 0
           /\ Len(federationOutbox) + Len(parts.remote.keys) <= MaxShared
           /\ th' = [th EXCEPT ![p] = [Idle EXCEPT !.pc = "insert",
                        !.todo = parts.remote.keys, !.remote = parts.remote.get,
                        !.local = parts.local, !.recipients = recipients,
                        !.created = now,
                        !.tez = IF federationOutbox = <<>> THEN 1
                                ELSE federationOutbox[Len(federationOutbox)].tezId + 1]]
    /\ UNCHANGED <<now, config, federatedServers, federatedTez, cache, federationOutbox,
                   faults, obs, welcomeVars, inVars, libVars>>

\* db.insert(federationOutbox) for the next host of the loop
RouteInsert(p) ==
    /\ p \in Routes
    /\ th[p].pc = "insert"
    /\ \/ /\ federationOutbox' = Append(federationOutbox,
                 [tezId |-> th[p].tez, targetHost |-> Head(th[p].todo),
                  targetAddresses |-> th[p].remote[Head(th[p].todo)],
                  bundle |-> [tez |-> th[p].tez, to |-> th[p].remote[Head(th[p].todo)]],
                  status |-> "pending", attempts |-> 0, lastAttemptAt |-> Null,
                  nextRetryAt |-> th[p].created, deliveredAt |-> Null, error |-> FALSE])
          /\ obs' = Append(obs, NewObs)
          /\ th' = [th EXCEPT ![p].pc = "entry", ![p].cur = Len(federationOutbox) + 1,
                              ![p].todo = Tail(th[p].todo)]
          /\ UNCHANGED faults
       \/ /\ faults < MaxFaults
          /\ faults' = faults + 1
          /\ th' = [th EXCEPT ![p] = Idle]
          /\ UNCHANGED <<federationOutbox, obs>>
    /\ UNCHANGED <<now, config, federatedServers, federatedTez, cache, welcomeVars, inVars, libVars>>

\* processOutboxEntry: select the row, return on a terminal status
ReadEntry(p) ==
    /\ th[p].pc = "entry"
    /\ LET e == th[p].cur
           entry == federationOutbox[e]
       IN  IF Terminal(entry.status)
           THEN /\ th' = [th EXCEPT ![p] = Return(p)]
                /\ UNCHANGED obs
           ELSE /\ th' = [th EXCEPT ![p].pc = "discover", ![p].snap = entry.attempts,
                                    ![p].at = now, ![p].halted = Halted(entry.targetHost)]
                /\ obs' = [obs EXCEPT ![e].offSchedule =
                       \/ @
                       \/ \E q \in Procs \ {p} : InAttempt(q) /\ th[q].cur = e
                       \/ entry.status = "failed" /\ entry.nextRetryAt > now]
    /\ UNCHANGED <<now, config, federatedServers, federatedTez, cache, federationOutbox,
                   faults, welcomeVars, inVars, libVars>>

\* discoverServer(entry.targetHost), then the signed POST is sent
Discover(p, network) ==
    /\ th[p].pc = "discover"
    /\ LET e == th[p].cur
           h == federationOutbox[e].targetHost
       IN  IF cache[h] > now
           THEN /\ network = "hit"
                /\ th' = [th EXCEPT ![p].pc = "post"]
                /\ UNCHANGED <<cache, federationOutbox, faults, obs>>
           ELSE \/ /\ network = "ok" \/ (network = "down" /\ Registered(h))
                   /\ cache' = [cache EXCEPT ![h] = now + CACHE_TTL_MS]
                   /\ th' = [th EXCEPT ![p].pc = "post"]
                   /\ UNCHANGED <<federationOutbox, faults, obs>>
                \/ /\ network = "down" /\ ~Registered(h)
                   /\ Catch(p, obs[e], faults)
                   /\ UNCHANGED cache
    /\ UNCHANGED <<now, config, federatedServers, federatedTez, welcomeVars, inVars, libVars>>

\* processOutboxEntry after the fetch: the success branch's update when the
\* response was ok, the catch block otherwise; o is what is known of the entry
Answered(p, ok, o) ==
    LET e == th[p].cur
    IN  \/ /\ ok
           /\ federationOutbox' = [federationOutbox EXCEPT ![e] =
                  [@ EXCEPT !.status = "delivered", !.deliveredAt = th[p].at,
                            !.lastAttemptAt = th[p].at, !.attempts = th[p].snap + 1]]
           /\ th' = [th EXCEPT ![p].pc = "okInsert"]
           /\ obs' = [obs EXCEPT ![e] = o]
           /\ UNCHANGED faults
        \/ /\ ok
           /\ faults < MaxFaults
           /\ Catch(p, [o EXCEPT !.faulted = TRUE], faults + 1)
        \/ /\ ~ok
           /\ Catch(p, o, faults)

\* the remote inbox answers (or the fetch times out): the success branch's update,
\* or the catch block
Respond(p, ok) ==
    /\ th[p].pc = "post"
    /\ Answered(p, ok, [obs[th[p].cur] EXCEPT !.got2xx = @ \/ ok])
    /\ UNCHANGED <<now, config, federatedServers, federatedTez, cache, welcomeVars, inVars, libVars>>

\* status of the remote inbox's answer to a bundle it already holds
DUPLICATE_BUNDLE == 409

\* the POST against a remote relay that runs this inbox: a bundle that reaches
\* it is persisted and answered 200 unless the remote holds it already, which
\* is answered 409; the answer may be lost on its way back (fetch times out)
Deliver(p, reaches, observed) ==
    /\ th[p].pc = "post"
    /\ LET e == th[p].cur
           status == IF ~reaches \/ ~observed THEN 0
                     ELSE IF obs[e].held THEN DUPLICATE_BUNDLE ELSE 200
           ok == (status >= 200 /\ status <= 299) \/ status = 207
       IN  Answered(p, ok, [obs[e] EXCEPT !.held = @ \/ reaches, !.got2xx = @ \/ ok,
                                          !.duplicate = @ \/ status = DUPLICATE_BUNDLE])
    /\ UNCHANGED <<now, config, federatedServers, federatedTez, cache, welcomeVars, inVars, libVars>>

\* db.insert(federatedTez) of the success branch
OkInsert(p) ==
    /\ th[p].pc = "okInsert"
    /\ LET e == th[p].cur
           entry == federationOutbox[e]
       IN  \/ /\ federatedTez' = Append(federatedTez,
                     [localTezId |-> entry.tezId, remoteHost |-> entry.targetHost,
                      direction |-> "outbound", bundleHash |-> entry.tezId])
              /\ th' = [th EXCEPT ![p].pc = "okAudit"]
              /\ UNCHANGED <<federationOutbox, faults, obs>>
           \/ /\ faults < MaxFaults
              /\ Catch(p, [obs[e] EXCEPT !.faulted = TRUE], faults + 1)
              /\ UNCHANGED federatedTez
    /\ UNCHANGED <<now, config, federatedServers, cache, welcomeVars, inVars, libVars>>

\* recordAudit("federation.sent") of the success branch
OkAudit(p) ==
    /\ th[p].pc = "okAudit"
    /\ \/ /\ th' = [th EXCEPT ![p] = Return(p)]
          /\ UNCHANGED <<federationOutbox, faults, obs>>
       \/ /\ faults < MaxFaults
          /\ Catch(p, [obs[th[p].cur] EXCEPT !.faulted = TRUE], faults + 1)
    /\ UNCHANGED <<now, config, federatedServers, federatedTez, cache, welcomeVars, inVars, libVars>>

\* recordAudit("federation.failed") after the entry expired
ExpAudit(p) ==
    /\ th[p].pc = "expAudit"
    /\ \/ /\ th' = [th EXCEPT ![p] = Return(p)]
          /\ UNCHANGED faults
       \/ /\ faults < MaxFaults
          /\ faults' = faults + 1
          /\ th' = [th EXCEPT ![p] = Idle]
    /\ UNCHANGED <<now, config, federatedServers, federatedTez, cache, federationOutbox,
                   obs, welcomeVars, inVars, libVars>>

\* processOutboxQueue: the select of the failed entries that are due
StartSweep(p) ==
    /\ p \in Sweeps
    /\ th[p].pc = "idle"
    /\ LET Due(i) == /\ federationOutbox[i].status = "failed"
                     /\ federationOutbox[i].nextRetryAt <= now
       IN  th' = [th EXCEPT ![p] = [Idle EXCEPT !.pc = "fresh",
                      !.todo = Limit(SelectSeq(OutboxIds, Due), SweepLimit)]]
    /\ UNCHANGED <<now, config, federatedServers, federatedTez, cache, federationOutbox,
                   faults, obs, welcomeVars, inVars, libVars>>

\* processOutboxQueue: the select of the pending entries, then the loop begins
SweepFresh(p) ==
    /\ p \in Sweeps
    /\ th[p].pc = "fresh"
    /\ LET Fresh(i) == federationOutbox[i].status = "pending"
           all == th[p].todo \o Limit(SelectSeq(OutboxIds, Fresh), SweepLimit)
       IN  th' = [th EXCEPT ![p] = IF all = <<>> THEN Idle
                      ELSE [th[p] EXCEPT !.pc = "entry", !.cur = Head(all),
                                         !.todo = Tail(all)]]
    /\ UNCHANGED <<now, config, federatedServers, federatedTez, cache, federationOutbox,
                   faults, obs, welcomeVars, inVars, libVars>>

\* the instants at which a retry falls due
Instants == {federationOutbox[i].nextRetryAt : i \in 1..Len(federationOutbox)}

\* the clock advances to such an instant.  The unit is the minute and an attempt
\* is bounded by its timeouts (10 s discovery, 30 s POST), so no minute passes
\* within an attempt; minutes do pass between the attempts of one sweep.
Tick(t) ==
    /\ t > now
    /\ \A p \in Procs : ~InAttempt(p)
    /\ t <= MaxTime
    /\ now' = t
    /\ UNCHANGED <<config, federatedServers, federatedTez, outVars, welcomeVars, inVars, libVars>>

----------------------------------------------------------------------------
(* Trust registry: handshake and admin operations *)

\* sendWelcomeCookie without the check of the dedup set
SendWelcomeCookieNoDedup(targetHost) ==
    /\ welcomeSentTo' = welcomeSentTo \cup {targetHost}
    /\ welcomes' = [welcomes EXCEPT ![targetHost] = Min(@ + 1, MaxWelcomes)]
    /\ welcomePost' = [welcomePost EXCEPT ![targetHost] = "begun"]

\* sendWelcomeCookie(targetHost): nothing if the host is in welcomeSentTo, else the
\* host is added and the welcome bundle is built, signed and sent
SendWelcomeCookie(targetHost) ==
    IF targetHost \in welcomeSentTo
    THEN UNCHANGED welcomeVars
    ELSE /\ welcomeSentTo' = welcomeSentTo \cup {targetHost}
         /\ welcomes' = [welcomes EXCEPT ![targetHost] = Min(@ + 1, MaxWelcomes)]
         /\ welcomePost' = [welcomePost EXCEPT ![targetHost] = "begun"]

\* POST /federation/verify without the welcome of a newly trusted host
HandshakeNoWelcome(h, sid, key) ==
    /\ config.federationEnabled
    /\ IF Registered(h)
       THEN federatedServers' = [federatedServers EXCEPT ![h] =
                [@ EXCEPT !.lastSeenAt = now, !.publicKey = key, !.serverId = sid]]
       ELSE federatedServers' = [federatedServers EXCEPT ![h] =
                [serverId |-> sid, publicKey |-> key,
                 trustLevel |-> IF config.federationMode = "open" THEN "trusted"
                                ELSE "pending",
                 firstSeenAt |-> now, lastSeenAt |-> now]]
    /\ UNCHANGED <<now, config, federatedTez, cache, federationOutbox, th, faults, obs,
                   welcomeVars, inVars, libVars>>

\* what POST /federation/verify writes: the update of an existing row or the
\* insert of a new one, and the welcome of a newly trusted host
VerifyWrites(h, sid, key) ==
    /\ IF Registered(h)
       THEN federatedServers' = [federatedServers EXCEPT ![h] =
                [@ EXCEPT !.lastSeenAt = now, !.publicKey = key, !.serverId = sid]]
       ELSE federatedServers' = [federatedServers EXCEPT ![h] =
                [serverId |-> sid, publicKey |-> key,
                 trustLevel |-> IF config.federationMode = "open" THEN "trusted"
                                ELSE "pending",
                 firstSeenAt |-> now, lastSeenAt |-> now]]
    /\ IF ~Registered(h) /\ config.federationMode = "open"
       THEN SendWelcomeCookie(h)
       ELSE UNCHANGED welcomeVars

\* POST /federation/verify
Handshake(h, sid, key) ==
    /\ config.federationEnabled
    /\ VerifyWrites(h, sid, key)
    /\ UNCHANGED <<now, config, federatedTez, cache, federationOutbox, th, faults, obs,
                   inVars, libVars>>

\* what PATCH writes once its checks have passed: the trust level, and the
\* welcome of a host promoted to trusted
PatchWrites(h, level) ==
    /\ federatedServers' = [federatedServers EXCEPT ![h].trustLevel = level]
    /\ IF level = "trusted" /\ federatedServers[h].trustLevel # "trusted"
       THEN SendWelcomeCookie(h)
       ELSE UNCHANGED welcomeVars

\* PATCH /admin/federation/servers/:host
AdminSetTrust(h, level) ==
    /\ level \in TrustLevels
    /\ Registered(h)
    /\ PatchWrites(h, level)
    /\ UNCHANGED <<now, config, federatedTez, outVars, inVars, libVars>>

\* DELETE /admin/federation/servers/:host
AdminDelete(h) ==
    /\ Registered(h)
    /\ federatedServers' = [federatedServers EXCEPT ![h] = NoPeer]
    /\ UNCHANGED <<now, config, federatedTez, cache, federationOutbox, th, faults, obs,
                   welcomeVars, inVars, libVars>>

----------------------------------------------------------------------------
(* The registry endpoints with their checks and responses: POST
   /federation/verify and, behind authenticate and requireAdmin, PATCH and
   DELETE /admin/federation/servers/:host *)

Anonymous == ""
AdminUserIds == {"root"}
Callers == {"root", "mallory", Anonymous}

NoReply == [op |-> "", caller |-> "", host |-> "", level |-> "", sid |-> "", key |-> "",
            status |-> 0,
            body |-> ""]

ApiIdle == reply = NoReply

\* authenticate, then requireAdmin: 0 if the request goes on to the handler
AdminGate(caller) ==
    IF caller = Anonymous THEN 401
    ELSE IF caller \notin AdminUserIds THEN 403
    ELSE 0

\* PATCH that writes the trust level before it looks at the caller and the level
PatchServerUnchecked(caller, h, level) ==
    /\ reply' = [op |-> "patch", caller |-> caller, host |-> h, level |-> level,
                 sid |-> "", key |-> "",
                 status |-> IF AdminGate(caller) # 0 THEN AdminGate(caller)
                            ELSE IF level \notin TrustLevels THEN 400
                            ELSE IF ~Registered(h) THEN 404 ELSE 200,
                 body |-> ""]
    /\ federatedServers' = [federatedServers EXCEPT ![h] =
            IF Registered(h) THEN [@ EXCEPT !.trustLevel = level]
            ELSE [serverId |-> "", publicKey |-> "", trustLevel |-> level,
                  firstSeenAt |-> now, lastSeenAt |-> now]]
    /\ UNCHANGED <<welcomeVars, now, config, federatedTez, outVars, inVars, sigVars,
                   bundleVars, discVars, idVars>>

\* PATCH /admin/federation/servers/:host with its middleware
PatchServer(caller, h, level) ==
    LET status == IF AdminGate(caller) # 0 THEN AdminGate(caller)
                  ELSE IF level \notin TrustLevels THEN 400
                  ELSE IF ~Registered(h) THEN 404
                  ELSE 200
    IN  /\ reply' = [op |-> "patch", caller |-> caller, host |-> h, level |-> level,
                 sid |-> "", key |-> "",
                     status |-> status, body |-> IF status = 200 THEN level ELSE ""]
        /\ IF status = 200
           THEN PatchWrites(h, level)
           ELSE UNCHANGED <<federatedServers, welcomeVars>>
        /\ UNCHANGED <<now, config, federatedTez, outVars, inVars, sigVars, bundleVars,
                       discVars, idVars>>

\* DELETE /admin/federation/servers/:host with its middleware
DeleteServer(caller, h) ==
    LET status == IF AdminGate(caller) # 0 THEN AdminGate(caller)
                  ELSE IF ~Registered(h) THEN 404
                  ELSE 200
    IN  /\ reply' = [op |-> "delete", caller |-> caller, host |-> h, level |-> "",
                     sid |-> "", key |-> "",
                     status |-> status, body |-> ""]
        /\ federatedServers' = IF status = 200
                               THEN [federatedServers EXCEPT ![h] = NoPeer]
                               ELSE federatedServers
        /\ UNCHANGED <<welcomeVars, now, config, federatedTez, outVars, inVars, sigVars,
                       bundleVars, discVars, idVars>>

\* POST /federation/verify that sets an existing row back to the level of a new one
PostVerifyResets(h, sid, key) ==
    /\ reply' = [op |-> "verify", caller |-> Anonymous, host |-> h, level |-> "",
                 sid |-> sid, key |-> key,
                 status |-> 200,
                 body |-> IF config.federationMode = "open" THEN "trusted" ELSE "pending"]
    /\ federatedServers' = [federatedServers EXCEPT ![h] =
            [serverId |-> sid, publicKey |-> key,
             trustLevel |-> IF config.federationMode = "open" THEN "trusted" ELSE "pending",
             firstSeenAt |-> now, lastSeenAt |-> now]]
    /\ UNCHANGED <<welcomeVars, now, config, federatedTez, outVars, inVars, sigVars,
                   bundleVars, discVars, idVars>>

\* POST /federation/verify with its checks and its response: the trust level
\* the row had, or the one it was created with
PostVerify(h, sid, key) ==
    LET status == IF ~config.federationEnabled THEN 404
                  ELSE IF sid = "" \/ key = "" THEN 400
                  ELSE 200
    IN  /\ reply' = [op |-> "verify", caller |-> Anonymous, host |-> h, level |-> "",
                 sid |-> sid, key |-> key,
                     status |-> status,
                     body |-> IF status # 200 THEN ""
                              ELSE IF Registered(h) THEN federatedServers[h].trustLevel
                              ELSE IF config.federationMode = "open" THEN "trusted"
                              ELSE "pending"]
        /\ IF status = 200
           THEN VerifyWrites(h, sid, key)
           ELSE UNCHANGED <<federatedServers, welcomeVars>>
        /\ UNCHANGED <<now, config, federatedTez, outVars, inVars, sigVars, bundleVars,
                       discVars, idVars>>

----------------------------------------------------------------------------
(* HTTP signatures: signRequest and verifyRequest.  Times are in
   milliseconds.  A Date header is a parseable UTC string (to the second), some
   other text, or absent; SHA-256 and Ed25519 are taken to be collision-free
   and unforgeable, so a digest names the body it was computed from and a
   signature names the private key and the exact string it was made over. *)

WINDOW_MS == 60000
Undefined == "<undefined>"
Methods == {"POST", "post"}
Bodies == {"{a}", "{b}"}
KeyPairs == {"k1", "k2"}
BadKey == "<not a key>"
SignClocks == {100000, 100999}
Skews == {0 - 60001, 0 - 60000, 0 - 1, 0, 60000, 60001}

NoSigIn == [method |-> "", path |-> "", host |-> "", body |-> "", key |-> "", clock |-> 0]
NoDate == [kind |-> "undefined", sec |-> 0]
NoDigest == [alg |-> "", of |-> Undefined]
NoSignature == [kind |-> "undefined", key |-> "", over |-> <<>>]
NoWire == [state |-> "none", method |-> "", path |-> "", host |-> "", date |-> NoDate,
           digest |-> NoDigest, nonce |-> "", signature |-> NoSignature,
           body |-> "", signedBy |-> "", signedBody |-> "", pristine |-> FALSE]
NoVerdict == [state |-> "none", params |-> NoWire, publicKeyBase64 |-> "", clock |-> 0,
              result |-> "none"]

SigIdle ==
    /\ sigIn = NoSigIn
    /\ wire = NoWire
    /\ verdict = NoVerdict

\* String.prototype.toLowerCase on the method names in use
ToLowerCase(m) == IF m = "POST" THEN "post" ELSE m

\* Date.prototype.toUTCString: the instant cut to whole seconds
ToUTCString(ms) == [kind |-> "utc", sec |-> ms \div 1000]

\* new Date(s).getTime(): milliseconds, or NaN for anything that is not a date
GetTime(date) ==
    IF date.kind = "utc" THEN [nan |-> FALSE, ms |-> date.sec * 1000]
    ELSE [nan |-> TRUE, ms |-> 0]

\* Math.abs(now - t): NaN stays NaN
AbsDiff(clock, t) ==
    IF t.nan THEN t
    ELSE [nan |-> FALSE, ms |-> IF clock >= t.ms THEN clock - t.ms ELSE t.ms - clock]

\* x > n in JavaScript: every comparison with NaN is false
GreaterThan(x, n) == ~x.nan /\ x.ms > n

computeDigest(body) == [alg |-> "SHA-256", of |-> body]

\* the lines of the signing string; the nonce line only if the nonce is truthy
buildSigningString(params) ==
    LET lines == <<ToLowerCase(params.method), params.path, params.host, params.date,
                   params.digest>>
    IN  IF params.nonce # "" /\ params.nonce # Undefined
        THEN Append(lines, params.nonce)
        ELSE lines

\* crypto.sign(null, data, privateKey) with the private key of key pair k
Ed25519Sign(k, data) == [kind |-> "sig", key |-> k, over |-> data]

signRequest(params) ==
    LET date == ToUTCString(params.clock)
        digest == computeDigest(params.body)
        nonce == "n1"
        signingString == buildSigningString([method |-> params.method, path |-> params.path,
                            host |-> params.host, date |-> date, digest |-> digest,
                            nonce |-> nonce])
    IN  [method |-> params.method, path |-> params.path, host |-> params.host,
         date |-> date, digest |-> digest, nonce |-> nonce,
         signature |-> Ed25519Sign(params.key, signingString), body |-> params.body]

\* the body of verifyRequest's try block: "true", "false", or "throw" where
\* a call in it raises
VerifyTry(params, clock) ==
    IF params.body = Undefined THEN "throw"
    ELSE IF params.digest # computeDigest(params.body) THEN "false"
    ELSE IF GreaterThan(AbsDiff(clock, GetTime(params.date)), WINDOW_MS) THEN "false"
    ELSE IF params.publicKeyBase64 \notin KeyPairs THEN "throw"
    ELSE IF params.signature.kind = "undefined" THEN "throw"
    ELSE IF /\ params.signature.kind = "sig"
            /\ params.signature.key = params.publicKeyBase64
            /\ params.signature.over = buildSigningString(params)
         THEN "true"
    ELSE "false"

\* verifyRequest without the clock-skew window
VerifyNoWindow(params, clock) ==
    LET r == VerifyTry(params, params.date.sec * 1000) IN IF r = "throw" THEN "false" ELSE r

\* verifyRequest without the digest comparison
VerifyNoDigest(params, clock) ==
    IF params.body = Undefined THEN "false"
    ELSE IF GreaterThan(AbsDiff(clock, GetTime(params.date)), WINDOW_MS) THEN "false"
    ELSE IF params.publicKeyBase64 \notin KeyPairs THEN "false"
    ELSE IF /\ params.signature.kind = "sig"
            /\ params.signature.key = params.publicKeyBase64
            /\ params.signature.over = buildSigningString(params)
         THEN "true"
    ELSE "false"

verifyRequest(params, clock) ==
    LET r == VerifyTry(params, clock) IN IF r = "throw" THEN "false" ELSE r

\* the sender calls signRequest and puts the request on the wire
Sign ==
    /\ wire.state = "none"
    /\ wire' = signRequest(sigIn) @@
                [state |-> "sent", signedBy |-> sigIn.key, signedBody |-> sigIn.body,
                 pristine |-> TRUE]
    /\ UNCHANGED <<sigIn, verdict, now, config, federatedServers, federatedTez,
                   welcomeVars, outVars, inVars, bundleVars, discVars,
                   apiVars, idVars>>

\* a holder of the private key signs headers of its own making: any Date value
SignRaw(date) ==
    /\ wire.state = "none"
    /\ LET digest == computeDigest(sigIn.body)
           headers == [method |-> sigIn.method, path |-> sigIn.path, host |-> sigIn.host,
                       date |-> date, digest |-> digest, nonce |-> "n1"]
       IN  wire' = headers @@
                    [signature |-> Ed25519Sign(sigIn.key, buildSigningString(headers)),
                     body |-> sigIn.body, state |-> "sent", signedBy |-> sigIn.key,
                     signedBody |-> sigIn.body, pristine |-> FALSE]
    /\ UNCHANGED <<sigIn, verdict, now, config, federatedServers, federatedTez,
                   welcomeVars, outVars, inVars, bundleVars, discVars,
                   apiVars, idVars>>

\* what may happen to one field of the request between sender and verifier
Tamperings ==
    ({"body"} \X (Bodies \cup {Undefined}))
    \cup ({"date"} \X {ToUTCString(c) : c \in {40000, 160000}})
    \cup ({"date"} \X {[kind |-> "text", sec |-> 0], NoDate})
    \cup ({"digest"} \X ({computeDigest(b) : b \in Bodies} \cup {NoDigest}))
    \cup ({"nonce"} \X {"n2", Undefined})
    \cup ({"method"} \X Methods)
    \cup ({"signature"} \X {[kind |-> "junk", key |-> "", over |-> <<>>], NoSignature})

Tamper(field, value) ==
    /\ wire.state = "sent"
    /\ wire[field] # value
    /\ wire' = [wire EXCEPT ![field] = value, !.pristine = FALSE, !.state = "altered"]
    /\ UNCHANGED <<sigIn, verdict, now, config, federatedServers, federatedTez,
                   welcomeVars, outVars, inVars, bundleVars, discVars,
                   apiVars, idVars>>

\* the body is replaced and the Digest header recomputed to match it
Rebody(body) ==
    /\ wire.state = "sent"
    /\ wire.body # body
    /\ wire' = [wire EXCEPT !.body = body, !.digest = computeDigest(body),
                            !.pristine = FALSE, !.state = "altered"]
    /\ UNCHANGED <<sigIn, verdict, now, config, federatedServers, federatedTez,
                   welcomeVars, outVars, inVars, bundleVars, discVars,
                   apiVars, idVars>>

\* the receiver verifies what arrived against a public key at its own clock
Verify(publicKeyBase64, clock) ==
    /\ wire.state \in {"sent", "altered"}
    /\ verdict.state = "none"
    /\ verdict' = [state |-> "done", params |-> wire, publicKeyBase64 |-> publicKeyBase64,
                   clock |-> clock,
                   result |-> verifyRequest([wire EXCEPT !.state = "sent"] @@
                                 [publicKeyBase64 |-> publicKeyBase64], clock)]
    /\ UNCHANGED <<sigIn, wire, now, config, federatedServers, federatedTez,
                   welcomeVars, outVars, inVars, bundleVars, discVars,
                   apiVars, idVars>>

----------------------------------------------------------------------------
(* Federation bundles: createBundle and validateBundle.  A JavaScript object
   is the sequence of its <<key, value>> pairs in insertion order, which is
   the order JSON.stringify writes them in; SHA-256 is taken to be
   collision-free, so a hash names the string it was computed from. *)

\* obj[key], Undefined where the object has no such key
Get(obj, key) ==
    IF \E i \in 1..Len(obj) : obj[i][1] = key
    THEN obj[CHOOSE i \in 1..Len(obj) : obj[i][1] = key][2]
    ELSE Undefined

\* obj[key] = value: an existing key keeps its place, a new key goes last
Put(obj, key, value) ==
    IF \E i \in 1..Len(obj) : obj[i][1] = key
    THEN [i \in 1..Len(obj) |-> IF obj[i][1] = key THEN <<key, value>> ELSE obj[i]]
    ELSE Append(obj, <<key, value>>)

\* JSON.stringify of an object: the pairs in insertion order, a pair whose
\* value is undefined left out
Stringify(obj) ==
    LET keep(pair) == pair[2] # Undefined IN [json |-> SelectSeq(obj, keep)]

\* JSON.stringify of an array of objects
StringifyAll(items) == [i \in 1..Len(items) |-> Stringify(items[i])]

NoHash == [sha256 |-> <<>>]

computeBundleHash(tezData, context) ==
    [sha256 |-> <<StringifyAll(context), Stringify(tezData)>>]

\* two objects have the same keys with the same values
SameContent(o1, o2) == {o1[i] : i \in 1..Len(o1)} = {o2[i] : i \in 1..Len(o2)}

createBundle(params) ==
    [protocol_version |-> "1.2.4",
     bundle_type |-> "federation_delivery",
     sender_server |-> params.identity.host,
     sender_server_id |-> params.identity.serverId,
     from |-> params.from,
     to |-> params.to,
     tez |-> params.tez,
     context |-> params.context,
     bundle_hash |-> computeBundleHash(params.tez, params.context),
     signed_at |-> now,
     isObject |-> TRUE,
     absent |-> {}]

\* !x for a string field: absent and empty are both falsy
Falsy(x) == x = Undefined \/ x = ""

\* the received value has property f, of the type createBundle gives it
Has(b, f) == f \notin b.absent

\* validateBundle without the comparison of the hash
ValidateNoHash(b) ==
    IF ~b.isObject THEN "Bundle must be an object"
    ELSE IF ~Has(b, "bundle_type") \/ b.bundle_type # "federation_delivery"
         THEN "Invalid bundle_type"
    ELSE IF ~Has(b, "sender_server") \/ Falsy(b.sender_server)
         THEN "Missing sender_server"
    ELSE IF ~Has(b, "sender_server_id") \/ Falsy(b.sender_server_id)
         THEN "Missing sender_server_id"
    ELSE IF ~Has(b, "from") \/ Falsy(b.from) THEN "Missing from address"
    ELSE IF ~Has(b, "to") \/ Len(b.to) = 0 THEN "Missing or empty to addresses"
    ELSE IF ~Has(b, "tez") THEN "Missing tez payload"
    ELSE IF \/ Falsy(Get(b.tez, "id"))
            \/ Falsy(Get(b.tez, "surfaceText"))
            \/ Falsy(Get(b.tez, "createdAt"))
         THEN "Missing required tez fields (id, surfaceText, createdAt)"
    ELSE IF ~Has(b, "context") THEN "Missing context array"
    ELSE IF ~Has(b, "bundle_hash") \/ b.bundle_hash = NoHash THEN "Missing bundle_hash"
    ELSE "null"

\* validateBundle with the integrity check made first
ValidateHashFirst(b) ==
    IF b.bundle_hash # computeBundleHash(b.tez, b.context)
    THEN "Bundle hash mismatch"
    ELSE ValidateNoHash(b)

\* validateBundle(built): "null" if valid, else the error message
validateBundle(b) ==
    IF ~b.isObject THEN "Bundle must be an object"
    ELSE IF ~Has(b, "bundle_type") \/ b.bundle_type # "federation_delivery"
         THEN "Invalid bundle_type"
    ELSE IF ~Has(b, "sender_server") \/ Falsy(b.sender_server)
         THEN "Missing sender_server"
    ELSE IF ~Has(b, "sender_server_id") \/ Falsy(b.sender_server_id)
         THEN "Missing sender_server_id"
    ELSE IF ~Has(b, "from") \/ Falsy(b.from) THEN "Missing from address"
    ELSE IF ~Has(b, "to") \/ Len(b.to) = 0 THEN "Missing or empty to addresses"
    ELSE IF ~Has(b, "tez") THEN "Missing tez payload"
    ELSE IF \/ Falsy(Get(b.tez, "id"))
            \/ Falsy(Get(b.tez, "surfaceText"))
            \/ Falsy(Get(b.tez, "createdAt"))
         THEN "Missing required tez fields (id, surfaceText, createdAt)"
    ELSE IF ~Has(b, "context") THEN "Missing context array"
    ELSE IF ~Has(b, "bundle_hash") \/ b.bundle_hash = NoHash THEN "Missing bundle_hash"
    ELSE IF b.bundle_hash # computeBundleHash(b.tez, b.context)
         THEN "Bundle hash mismatch"
    ELSE "null"

NoParams == [tez |-> <<>>, context |-> <<>>, from |-> "", to |-> <<>>,
             identity |-> [host |-> "", serverId |-> ""]]
NoBuilt == [state |-> "none", b |-> createBundle(NoParams), params |-> NoParams,
            altered |-> "", firstHash |-> NoHash]
NoValidated == [state |-> "none", of |-> NoBuilt, result |-> ""]

BundleIdle ==
    /\ built = NoBuilt
    /\ validated = NoValidated

\* the sender builds a bundle
Create(params) ==
    /\ built.state = "none"
    /\ built' = [state |-> "built", b |-> createBundle(params), params |-> params,
                  altered |-> "", firstHash |-> computeBundleHash(params.tez, params.context)]
    /\ UNCHANGED <<validated, now, config, federatedServers, federatedTez, welcomeVars,
                   outVars, inVars, sigVars, discVars,
                   apiVars, idVars>>

\* the sender builds the bundle again from the same keys and values put in
\* in another order
Recreate(params) ==
    /\ built.state = "built"
    /\ params # built.params
    /\ params.from = built.params.from
    /\ params.to = built.params.to
    /\ params.identity = built.params.identity
    /\ SameContent(params.tez, built.params.tez)
    /\ Len(params.context) = Len(built.params.context)
    /\ \A i \in 1..Len(params.context) :
          SameContent(params.context[i], built.params.context[i])
    /\ built' = [built EXCEPT !.state = "rebuilt", !.b = createBundle(params),
                                !.params = params]
    /\ UNCHANGED <<validated, now, config, federatedServers, federatedTez, welcomeVars,
                   outVars, inVars, sigVars, discVars,
                   apiVars, idVars>>

\* one field of the payload of a built bundle is changed, bundle_hash is not
AlterTez(key, value) ==
    /\ built.state = "built"
    /\ Get(built.b.tez, key) # value
    /\ built' = [built EXCEPT !.state = "altered", !.altered = key,
                                !.b.tez = Put(@, key, value)]
    /\ UNCHANGED <<validated, now, config, federatedServers, federatedTez, welcomeVars,
                   outVars, inVars, sigVars, discVars,
                   apiVars, idVars>>

\* one field of one context item of a built bundle is changed
AlterContext(i, key, value) ==
    /\ built.state = "built"
    /\ i \in 1..Len(built.b.context)
    /\ Get(built.b.context[i], key) # value
    /\ built' = [built EXCEPT !.state = "altered", !.altered = key,
                                !.b.context[i] = Put(@, key, value)]
    /\ UNCHANGED <<validated, now, config, federatedServers, federatedTez, welcomeVars,
                   outVars, inVars, sigVars, discVars,
                   apiVars, idVars>>

\* the bundle arrives without one of its properties (or with one of another
\* type), or is no object at all ("*"); bundle_hash is as it was
Strip(field) ==
    /\ built.state \in {"built", "altered"}
    /\ built' = [built EXCEPT !.state = "stripped",
                                !.b.absent = IF field = "*" THEN @ ELSE {field},
                                !.b.isObject = field # "*"]
    /\ UNCHANGED <<validated, now, config, federatedServers, federatedTez, welcomeVars,
                   outVars, inVars, sigVars, discVars,
                   apiVars, idVars>>

\* the receiver validates the bundle as it is
Validate ==
    /\ built.state # "none"
    /\ validated.state = "none"
    /\ validated' = [state |-> "done", of |-> built, result |-> validateBundle(built.b)]
    /\ UNCHANGED <<built, now, config, federatedServers, federatedTez, welcomeVars,
                   outVars, inVars, sigVars, discVars,
                   apiVars, idVars>>

----------------------------------------------------------------------------
(* Discovery: validateHost and discoverServer.  A host string is its text,
   the suffix it ends in, and its four numbers if it is a dotted quad; dns
   says, for each host, which string it is and what resolve4 answers for it *)

PublicIp == <<93, 184, 216, 34>>
Loopback == <<127, 0, 0, 1>>
PrivateIp == <<10, 0, 0, 5>>
LinkLocal == <<169, 254, 1, 1>>

Resolves(addresses) == [code |-> "ok", addresses |-> addresses]
DnsError(code) == [code |-> code, addresses |-> <<>>]

PublicHost ==
    [text |-> "relay.example", suffix |-> ".example", quad |-> <<>>,
     resolve4 |-> Resolves(<<PublicIp>>)]

\* the host strings discovery may be asked about, with their DNS answers
HostFacts ==
    {PublicHost,
     [PublicHost EXCEPT !.resolve4 = Resolves(<<PublicIp, PrivateIp>>)],
     [PublicHost EXCEPT !.resolve4 = Resolves(<<Loopback>>)],
     [PublicHost EXCEPT !.resolve4 = Resolves(<<LinkLocal>>)],
     [PublicHost EXCEPT !.resolve4 = DnsError("ENOTFOUND")],
     [PublicHost EXCEPT !.resolve4 = DnsError("ESERVFAIL")],
     [text |-> "10.0.0.5", suffix |-> "", quad |-> PrivateIp,
      resolve4 |-> DnsError("ENOTFOUND")],
     [text |-> "db.internal", suffix |-> ".internal", quad |-> <<>>,
      resolve4 |-> Resolves(<<PublicIp>>)],
     [text |-> "localhost", suffix |-> "", quad |-> <<>>,
      resolve4 |-> Resolves(<<Loopback>>)]}

isPrivateIp(ip) ==
    IF Len(ip) # 4 THEN FALSE
    ELSE LET a == ip[1]  b == ip[2]
         IN  \/ a = 10
             \/ a = 172 /\ b >= 16 /\ b <= 31
             \/ a = 192 /\ b = 168
             \/ a = 127
             \/ a = 169 /\ b = 254
             \/ a = 0

isBlockedHost(host) ==
    IF host.text = "localhost" \/ host.text = "::1" THEN TRUE
    ELSE IF host.suffix = ".local" \/ host.suffix = ".internal" THEN TRUE
    ELSE IF host.quad # <<>> THEN isPrivateIp(host.quad)
    ELSE FALSE

\* validateHost(host): "ok" if it returns, else the error it throws; a
\* resolve4 error other than ENOTFOUND is swallowed
validateHost(host) ==
    IF isBlockedHost(host) THEN "SSRF blocked"
    ELSE IF host.resolve4.code = "ok"
         THEN IF \E i \in 1..Len(host.resolve4.addresses) :
                     isPrivateIp(host.resolve4.addresses[i])
              THEN "SSRF blocked"
              ELSE "ok"
    ELSE IF host.resolve4.code = "ENOTFOUND" THEN "does not resolve"
    ELSE "ok"

NoFound == [state |-> "none", host |-> "", at |-> 0, source |-> "", fetched |-> FALSE,
            error |-> "", before |-> 0, after |-> 0, row |-> NoPeer]

DiscIdle ==
    /\ dns = [h \in RemoteHosts |-> PublicHost]
    /\ discovered = NoFound

\* discoverServer that returns a cached entry whether or not it has expired
DiscoverServerStale(h, network) ==
    /\ LET valid == validateHost(dns[h])
           source == IF cache[h] > 0 THEN "cache"
                     ELSE IF valid = "ok" /\ network = "ok" THEN "network"
                     ELSE IF Registered(h) THEN "db"
                     ELSE "error"
       IN  /\ network = "ok" => (cache[h] <= 0 /\ valid = "ok")
           /\ discovered' = [state |-> "done", host |-> h, at |-> now, source |-> source,
                        fetched |-> cache[h] <= 0 /\ valid = "ok",
                        error |-> IF source # "error" THEN ""
                                  ELSE IF valid = "ok" THEN "Discovery failed"
                                  ELSE valid,
                        before |-> cache[h],
                        after |-> IF source \in {"network", "db"}
                                  THEN now + CACHE_TTL_MS ELSE cache[h],
                        row |-> federatedServers[h]]
           /\ cache' = [cache EXCEPT ![h] = discovered'.after]
    /\ UNCHANGED <<dns, now, config, federatedServers, federatedTez, welcomeVars,
                   federationOutbox, th, faults, obs, inVars, sigVars, bundleVars,
                   apiVars, idVars>>

\* discoverServer(host), the fetch (if one is made) answering as network says:
\* the cached entry if it has not expired; else validateHost and the fetch of
\* the well-known document; if either fails, the registry row, or the error
DiscoverServer(h, network) ==
    /\ LET valid == validateHost(dns[h])
           source == IF cache[h] > now THEN "cache"
                     ELSE IF valid = "ok" /\ network = "ok" THEN "network"
                     ELSE IF Registered(h) THEN "db"
                     ELSE "error"
       IN  /\ network = "ok" => (cache[h] <= now /\ valid = "ok")
           /\ discovered' = [state |-> "done", host |-> h, at |-> now, source |-> source,
                        fetched |-> cache[h] <= now /\ valid = "ok",
                        error |-> IF source # "error" THEN ""
                                  ELSE IF valid = "ok" THEN "Discovery failed"
                                  ELSE valid,
                        before |-> cache[h],
                        after |-> IF source \in {"network", "db"}
                                  THEN now + CACHE_TTL_MS ELSE cache[h],
                        row |-> federatedServers[h]]
           /\ cache' = [cache EXCEPT ![h] = discovered'.after]
    /\ UNCHANGED <<dns, now, config, federatedServers, federatedTez, welcomeVars,
                   federationOutbox, th, faults, obs, inVars, sigVars, bundleVars,
                   apiVars, idVars>>

\* where discoverServer(h) gets its answer from, the fetch (if one is made)
\* answering as network says
DiscoverySource(h, network) ==
    IF cache[h] > now THEN "cache"
    ELSE IF validateHost(dns[h]) = "ok" /\ network = "ok" THEN "network"
    ELSE IF Registered(h) THEN "db"
    ELSE "error"

\* sendWelcomeCookie after the bundle is built: discoverServer(targetHost), then
\* the signed POST to https://targetHost/federation/inbox; every error is logged
\* and dropped
WelcomeDeliver(h, network) ==
    /\ welcomePost[h] = "begun"
    /\ LET source == DiscoverySource(h, network)
       IN  /\ cache' = [cache EXCEPT ![h] = IF source \in {"network", "db"}
                                            THEN now + CACHE_TTL_MS ELSE @]
           /\ welcomePost' = [welcomePost EXCEPT ![h] =
                                 IF source = "error" THEN "failed" ELSE "posted"]
    /\ UNCHANGED <<welcomeSentTo, welcomes, dns, discovered, now, config, federatedServers,
                   federatedTez, federationOutbox, th, faults, obs, inVars, sigVars,
                   bundleVars, apiVars, idVars>>

\* processOutboxEntry's discoverServer(entry.targetHost) with the host string
\* and DNS answer of the target known: no fetch succeeds for a host that
\* validateHost rejects
DiscoverChecked(p, network) ==
    /\ th[p].pc = "discover"
    /\ network = "ok" => validateHost(dns[federationOutbox[th[p].cur].targetHost]) = "ok"
    /\ Discover(p, network)

\* time passes between calls
Elapse(d) ==
    /\ now + d <= MaxTime
    /\ now' = now + d
    /\ UNCHANGED <<config, federatedServers, federatedTez, outVars, welcomeVars, inVars,
                   libVars>>

----------------------------------------------------------------------------
(* Server identity: initIdentity and getIdentity.  A keypair is the number
   of its generation; a key file holds the pair it was written from and, for
   server.pub, whether white space follows the key *)

Absent == [exists |-> FALSE, pair |-> 0, space |-> FALSE]
KeyFile(pair, space) == [exists |-> TRUE, pair |-> pair, space |-> space]
\* SHA-256 of the public key, hex, first 16 characters
deriveServerId(publicKeyBase64) == [sha256Hex16 |-> publicKeyBase64]

\* _identity = null; no keypair has the number 0
NoIdentity == [serverId |-> deriveServerId(0), publicKey |-> 0, privateKeyPem |-> 0,
               host |-> ""]
\* fromFiles: the call read the identity from the two key files
NoIdResult == [op |-> "", outcome |-> "", value |-> NoIdentity, fromFiles |-> FALSE]

IdIdle ==
    /\ keyFiles = [f \in {"server.pub", "server.key"} |-> Absent]
    /\ identityCache = NoIdentity
    /\ idResult = NoIdResult
    /\ keygen = 0

existsSync(f) == keyFiles[f].exists

\* readFileSync(pubPath).trim()
Trim(content) == content.pair

\* loadOrGenerate that generates whenever it is called
InitIdentityRegenerates ==
    /\ keygen < MaxKeys
    /\ keygen' = keygen + 1
    /\ keyFiles' = [f \in {"server.pub", "server.key"} |->
                        KeyFile(keygen + 1, FALSE)]
    /\ identityCache' = [serverId |-> deriveServerId(keygen + 1),
                         publicKey |-> keygen + 1, privateKeyPem |-> keygen + 1,
                         host |-> LocalHost]
    /\ idResult' = [op |-> "init", outcome |-> "returns", value |-> identityCache',
                    fromFiles |-> FALSE]
    /\ UNCHANGED <<now, config, federatedServers, federatedTez, welcomeVars, outVars,
                   inVars, sigVars, bundleVars, discVars, apiVars>>

\* initIdentity(): loadOrGenerate, deriveServerId, _identity is set
InitIdentity ==
    /\ IF existsSync("server.pub") /\ existsSync("server.key")
       THEN /\ identityCache' =
                  [serverId |-> deriveServerId(Trim(keyFiles["server.pub"])),
                   publicKey |-> Trim(keyFiles["server.pub"]),
                   privateKeyPem |-> keyFiles["server.key"].pair,
                   host |-> LocalHost]
            /\ idResult' = [op |-> "init", outcome |-> "returns",
                            value |-> identityCache', fromFiles |-> TRUE]
            /\ UNCHANGED <<keyFiles, keygen>>
       ELSE /\ keygen < MaxKeys
            /\ keygen' = keygen + 1
            /\ \/ /\ keyFiles' = [f \in {"server.pub", "server.key"} |->
                                      KeyFile(keygen + 1, FALSE)]
                  /\ identityCache' = [serverId |-> deriveServerId(keygen + 1),
                                       publicKey |-> keygen + 1,
                                       privateKeyPem |-> keygen + 1,
                                       host |-> LocalHost]
                  /\ idResult' = [op |-> "init", outcome |-> "returns",
                                  value |-> identityCache', fromFiles |-> FALSE]
               \/ \* the write of server.key throws after server.pub was written
                  /\ keyFiles' = [keyFiles EXCEPT !["server.pub"] =
                                      KeyFile(keygen + 1, FALSE)]
                  /\ idResult' = [op |-> "init", outcome |-> "throws",
                                  value |-> NoIdentity, fromFiles |-> FALSE]
                  /\ UNCHANGED identityCache
    /\ UNCHANGED <<now, config, federatedServers, federatedTez, welcomeVars, outVars,
                   inVars, sigVars, bundleVars, discVars, apiVars>>

\* getIdentity()
GetIdentity ==
    /\ idResult' = IF identityCache = NoIdentity
                   THEN [op |-> "get", outcome |-> "throws", value |-> NoIdentity,
                         fromFiles |-> FALSE]
                   ELSE [op |-> "get", outcome |-> "returns", value |-> identityCache,
                         fromFiles |-> FALSE]
    /\ UNCHANGED <<keyFiles, identityCache, keygen>>
    /\ UNCHANGED <<now, config, federatedServers, federatedTez, welcomeVars, outVars,
                   inVars, sigVars, bundleVars, discVars, apiVars>>

\* the operator removes a key file from DATA_DIR
Unlink(f) ==
    /\ existsSync(f)
    /\ keyFiles' = [keyFiles EXCEPT ![f] = Absent]
    /\ UNCHANGED <<identityCache, idResult, keygen>>
    /\ UNCHANGED <<now, config, federatedServers, federatedTez, welcomeVars, outVars,
                   inVars, sigVars, bundleVars, discVars, apiVars>>

----------------------------------------------------------------------------
(* The outbound engine with the registry it reads *)

OutHosts == {"h1"}
HostLists == {<<"h1">>}

InitOut ==
    /\ now = 0
    /\ config = [federationEnabled |-> TRUE, federationMode |-> "allowlist"]
    /\ federatedServers = [h \in RemoteHosts |-> NoPeer]
    /\ cache = [h \in RemoteHosts |-> 0]
    /\ federationOutbox = <<>>
    /\ federatedTez = <<>>
    /\ th = [p \in Procs |-> Idle]
    /\ faults = 0
    /\ obs = <<>>
    /\ welcomeSentTo = {}
    /\ welcomes = [h \in RemoteHosts |-> 0]
    /\ welcomePost = [h \in RemoteHosts |-> "none"]
    /\ contacts = {}
    /\ tez = <<>>
    /\ tezContext = <<>>
    /\ tezRecipients = <<>>
    /\ req = [r \in Reqs |-> NoReq]
    /\ served = 0
    /\ accepted = {}
    /\ SigIdle
    /\ BundleIdle
    /\ DiscIdle
    /\ ApiIdle
    /\ IdIdle

NextOut ==
    \/ \E p \in Routes, hosts \in HostLists : StartRoute(p, hosts)
    \/ \E p \in Routes : RouteInsert(p)
    \/ \E p \in Procs : ReadEntry(p)
    \/ \E p \in Procs, network \in {"hit", "ok", "down"} : Discover(p, network)
    \/ \E p \in Procs, ok \in BOOLEAN : Respond(p, ok)
    \/ \E p \in Procs : OkInsert(p)
    \/ \E p \in Procs : OkAudit(p)
    \/ \E p \in Procs : ExpAudit(p)
    \/ \E p \in Sweeps : StartSweep(p)
    \/ \E p \in Sweeps : SweepFresh(p)
    \/ \E t \in Instants : Tick(t)

SpecOut == InitOut /\ [][NextOut]_vars

\* the outbound engine with the trust registry changing under it; the clock is
\* held, so no retry falls due and no entry expires
NextTrustOut ==
    \/ \E p \in Routes, hosts \in HostLists : StartRoute(p, hosts)
    \/ \E p \in Routes : RouteInsert(p)
    \/ \E p \in Procs : ReadEntry(p)
    \/ \E p \in Procs, network \in {"hit", "ok", "down"} : Discover(p, network)
    \/ \E p \in Procs, ok \in BOOLEAN : Respond(p, ok)
    \/ \E p \in Procs : OkInsert(p)
    \/ \E p \in Procs : OkAudit(p)
    \/ \E p \in Sweeps : StartSweep(p)
    \/ \E p \in Sweeps : SweepFresh(p)
    \/ \E h \in OutHosts : Handshake(h, "s1", "k1")
    \/ \E h \in OutHosts, level \in TrustLevels : AdminSetTrust(h, level)
    \/ \E h \in OutHosts : AdminDelete(h)

SpecTrustOut == InitOut /\ [][NextTrustOut]_vars

----------------------------------------------------------------------------
(* Inbound acceptance pipeline: POST /federation/inbox *)

\* bundle.to.filter: atIndex !== -1 && addr.slice(atIndex + 1) === identity.host
IsLocalRecipient(addr) == addr.host # "" /\ addr.host = LocalHost

\* verifyRequest against the stored key: the digest matches the body, the Date is
\* within the window and the signature was made with the matching private key
VerifyRequest(in, publicKeyBase64) == in.intact /\ in.signedBy = publicKeyBase64

\* rows of federated_servers with server_id = keyId
SenderRows(keyId) ==
    {h \in RemoteHosts : Registered(h) /\ federatedServers[h].serverId = keyId}

\* res.status(status).json(...) of a request that is not accepted: the request is
\* over and its locals are gone; what it resolved and wrote stays on record
Reply(r, status, code) ==
    [NoReq EXCEPT !.pc = "done", !.resp = status, !.code = code,
                  !.valid = req[r].valid, !.notFound = req[r].notFound,
                  !.writes = req[r].writes, !.replay = req[r].replay,
                  !.auth = IF req[r].writes > 0 THEN req[r].auth ELSE NoAuth,
                  !.refused = req[r].refused]

\* the rejection the trust registry calls for when a request that names a signer
\* reaches the sender lookup and h is the row found ("" for none): "" when it calls
\* for none
PeerRejection(in, h) ==
    IF ~config.federationEnabled \/ in.large \/ ~in.headers \/ in.keyId = "" THEN ""
    ELSE IF h = "" THEN "UNKNOWN_SERVER"
    ELSE IF federatedServers[h].trustLevel = "blocked" THEN "SERVER_BLOCKED"
    ELSE IF federatedServers[h].trustLevel = "pending"
            /\ config.federationMode = "allowlist" THEN "SERVER_NOT_TRUSTED"
    ELSE ""

\* the first check, in the order of the pipeline, that a request fails when
\* the sender lookup finds row h ("" for none): "" when it fails none of them
EarliestFailure(in, h) ==
    LET failed == [check \in {"enabled", "size", "headers", "keyId", "known", "blocked",
                              "trusted", "signature", "structure"} |->
            CASE check = "enabled" -> ~config.federationEnabled
              [] check = "size" -> in.large
              [] check = "headers" -> ~in.headers
              [] check = "keyId" -> in.keyId = ""
              [] check = "known" -> h = ""
              [] check = "blocked" -> h # "" /\ federatedServers[h].trustLevel = "blocked"
              [] check = "trusted" -> /\ h # ""
                                      /\ config.federationMode = "allowlist"
                                      /\ federatedServers[h].trustLevel # "trusted"
              [] check = "signature" -> \/ h = ""
                                        \/ ~in.intact
                                        \/ in.signedBy # federatedServers[h].publicKey
              [] check = "structure" -> ~in.bundle.wellFormed]
        order == <<"enabled", "size", "headers", "keyId", "known", "blocked", "trusted",
                   "signature", "structure">>
    IN  IF \E i \in 1..Len(order) : failed[order[i]]
        THEN order[CHOOSE i \in 1..Len(order) :
                       failed[order[i]] /\ \A j \in 1..(i - 1) : ~failed[order[j]]]
        ELSE ""

\* the checks of the handler with the signature verified before the trust level
\* of the sender is looked at
ScreenSignatureFirst(in, h) ==
    IF ~config.federationEnabled THEN <<404, "FEDERATION_DISABLED">>
    ELSE IF in.large THEN <<413, "BUNDLE_TOO_LARGE">>
    ELSE IF ~in.headers THEN <<401, "MISSING_SIGNATURE">>
    ELSE IF in.keyId = "" THEN <<401, "INVALID_SIGNATURE">>
    ELSE IF h = "" THEN <<403, "UNKNOWN_SERVER">>
    ELSE IF ~VerifyRequest(in, federatedServers[h].publicKey)
         THEN <<401, "INVALID_SIGNATURE">>
    ELSE IF federatedServers[h].trustLevel = "blocked" THEN <<403, "SERVER_BLOCKED">>
    ELSE IF config.federationMode = "allowlist"
            /\ federatedServers[h].trustLevel # "trusted"
         THEN <<403, "SERVER_NOT_TRUSTED">>
    ELSE IF ~in.bundle.wellFormed THEN <<422, "INVALID_BUNDLE">>
    ELSE <<0, "">>

\* the checks of the handler without the test for a blocked sender
ScreenNoBlock(in, h) ==
    IF ~config.federationEnabled THEN <<404, "FEDERATION_DISABLED">>
    ELSE IF in.large THEN <<413, "BUNDLE_TOO_LARGE">>
    ELSE IF ~in.headers THEN <<401, "MISSING_SIGNATURE">>
    ELSE IF in.keyId = "" THEN <<401, "INVALID_SIGNATURE">>
    ELSE IF h = "" THEN <<403, "UNKNOWN_SERVER">>
    ELSE IF config.federationMode = "allowlist"
            /\ federatedServers[h].trustLevel # "trusted"
         THEN <<403, "SERVER_NOT_TRUSTED">>
    ELSE IF ~VerifyRequest(in, federatedServers[h].publicKey)
         THEN <<401, "INVALID_SIGNATURE">>
    ELSE IF ~in.bundle.wellFormed THEN <<422, "INVALID_BUNDLE">>
    ELSE <<0, "">>

\* the checks of the handler without the signature verification
ScreenNoVerify(in, h) ==
    IF ~config.federationEnabled THEN <<404, "FEDERATION_DISABLED">>
    ELSE IF in.large THEN <<413, "BUNDLE_TOO_LARGE">>
    ELSE IF ~in.headers THEN <<401, "MISSING_SIGNATURE">>
    ELSE IF in.keyId = "" THEN <<401, "INVALID_SIGNATURE">>
    ELSE IF h = "" THEN <<403, "UNKNOWN_SERVER">>
    ELSE IF federatedServers[h].trustLevel = "blocked" THEN <<403, "SERVER_BLOCKED">>
    ELSE IF config.federationMode = "allowlist"
            /\ federatedServers[h].trustLevel # "trusted"
         THEN <<403, "SERVER_NOT_TRUSTED">>
    ELSE IF ~in.bundle.wellFormed THEN <<422, "INVALID_BUNDLE">>
    ELSE <<0, "">>

\* the checks of the handler up to the duplicate lookup, for the sender row h
\* (h = "" when no row matches): the response, or 0 to go on
Screen(in, h) ==
    IF ~config.federationEnabled THEN <<404, "FEDERATION_DISABLED">>
    ELSE IF in.large THEN <<413, "BUNDLE_TOO_LARGE">>
    ELSE IF ~in.headers THEN <<401, "MISSING_SIGNATURE">>
    ELSE IF in.keyId = "" THEN <<401, "INVALID_SIGNATURE">>
    ELSE IF h = "" THEN <<403, "UNKNOWN_SERVER">>
    ELSE IF federatedServers[h].trustLevel = "blocked" THEN <<403, "SERVER_BLOCKED">>
    ELSE IF config.federationMode = "allowlist"
            /\ federatedServers[h].trustLevel # "trusted"
         THEN <<403, "SERVER_NOT_TRUSTED">>
    ELSE IF ~VerifyRequest(in, federatedServers[h].publicKey)
         THEN <<401, "INVALID_SIGNATURE">>
    ELSE IF ~in.bundle.wellFormed THEN <<422, "INVALID_BUNDLE">>
    ELSE <<0, "">>

\* the handler with lastSeenAt of the sender's row set as soon as the row is found
ReceiveTouching(r, in) ==
    /\ req[r].pc \in {"idle", "done"}
    /\ \A q \in Reqs : q < r => req[q].pc \notin {"idle", "done"}
    /\ served < MaxRequests
    /\ served' = served + 1
    /\ \E h \in (IF SenderRows(in.keyId) = {} THEN {""} ELSE SenderRows(in.keyId)) :
          LET out == Screen(in, h)
              fresh == [NoReq EXCEPT !.replay = in.bundle.hash \in accepted,
                                     !.peerReject = PeerRejection(in, h),
                                     !.first = EarliestFailure(in, h),
                                     !.refused = req[r].refused]
          IN  /\ req' = [req EXCEPT ![r] =
                    IF out[1] # 0
                    THEN [fresh EXCEPT !.pc = "done", !.resp = out[1], !.code = out[2]]
                    ELSE [fresh EXCEPT !.pc = "dup", !.bundle = in.bundle, !.sender = h,
                                       !.auth = [keyId |-> in.keyId,
                                                 signedBy |-> in.signedBy,
                                                 intact |-> in.intact]]]
              /\ federatedServers' =
                    IF h # "" /\ config.federationEnabled /\ ~in.large /\ in.headers
                    THEN [federatedServers EXCEPT ![h].lastSeenAt = now]
                    ELSE federatedServers
    /\ UNCHANGED <<now, config, federatedTez, welcomeVars, libVars, outVars,
                   contacts, tez, tezContext, tezRecipients, accepted>>

\* a request arrives: header checks, sender lookup, trust check, signature,
\* validateBundle
Receive(r, in) ==
    /\ req[r].pc \in {"idle", "done"}
    /\ \A q \in Reqs : q < r => req[q].pc \notin {"idle", "done"}
    /\ served < MaxRequests
    /\ served' = served + 1
    /\ \E h \in (IF SenderRows(in.keyId) = {} THEN {""} ELSE SenderRows(in.keyId)) :
          LET out == Screen(in, h)
              fresh == [NoReq EXCEPT !.replay = in.bundle.hash \in accepted,
                                     !.peerReject = PeerRejection(in, h),
                                     !.first = EarliestFailure(in, h),
                                     !.refused = req[r].refused]
          IN  req' = [req EXCEPT ![r] =
                  IF out[1] # 0
                  THEN [fresh EXCEPT !.pc = "done", !.resp = out[1], !.code = out[2]]
                  ELSE [fresh EXCEPT !.pc = "dup", !.bundle = in.bundle, !.sender = h,
                                     !.auth = [keyId |-> in.keyId, signedBy |-> in.signedBy,
                                               intact |-> in.intact]]]
    /\ UNCHANGED <<now, config, federatedServers, federatedTez, welcomeVars, libVars, outVars,
                   contacts, tez, tezContext, tezRecipients, accepted>>

\* the handler without the replay lookup: the local recipients are picked out at once
DupCheckNoReplay(r) ==
    /\ req[r].pc = "dup"
    /\ LET localRecipients == SelectSeq(req[r].bundle.to, IsLocalRecipient)
       IN  req' = [req EXCEPT ![r] =
               IF localRecipients = <<>> THEN Reply(r, 422, "NO_LOCAL_RECIPIENTS")
               ELSE [req[r] EXCEPT !.pc = "resolve", !.todo = localRecipients]]
    /\ UNCHANGED <<now, config, federatedServers, federatedTez, welcomeVars, libVars, outVars,
                   contacts, tez, tezContext, tezRecipients, served, accepted>>

\* the replay lookup returns; then the local recipients are picked out
DupCheck(r) ==
    /\ req[r].pc = "dup"
    /\ LET bundle == req[r].bundle
           existing == {i \in 1..Len(federatedTez) :
                           federatedTez[i].bundleHash = bundle.hash}
           localRecipients == SelectSeq(bundle.to, IsLocalRecipient)
       IN  req' = [req EXCEPT ![r] =
               IF existing # {} THEN Reply(r, 409, "DUPLICATE_BUNDLE")
               ELSE IF localRecipients = <<>> THEN Reply(r, 422, "NO_LOCAL_RECIPIENTS")
               ELSE [req[r] EXCEPT !.pc = "resolve", !.todo = localRecipients]]
    /\ UNCHANGED <<now, config, federatedServers, federatedTez, welcomeVars, libVars, outVars,
                   contacts, tez, tezContext, tezRecipients, served, accepted>>

\* the recipient loop without the check for zero valid recipients: the handler
\* goes on to persist whatever was resolved
ResolvePersistAnyway(r) ==
    /\ req[r].pc = "resolve"
    /\ LET addr == Head(req[r].todo)
           found == addr \in contacts
           rest == Tail(req[r].todo)
       IN  req' = [req EXCEPT ![r] =
               [req[r] EXCEPT !.todo = rest,
                              !.valid = IF found THEN Append(@, addr) ELSE @,
                              !.notFound = IF found THEN @ ELSE Append(@, addr),
                              !.pc = IF rest # <<>> THEN "resolve" ELSE "insertTez"]]
    /\ UNCHANGED <<now, config, federatedServers, federatedTez, welcomeVars, libVars, outVars,
                   contacts, tez, tezContext, tezRecipients, served, accepted>>

\* one contact lookup of the recipient loop; after the last one, the 422 or on
Resolve(r) ==
    /\ req[r].pc = "resolve"
    /\ LET addr == Head(req[r].todo)
           found == addr \in contacts
           validRecipients == IF found THEN Append(req[r].valid, addr) ELSE req[r].valid
           notFound == IF found THEN req[r].notFound ELSE Append(req[r].notFound, addr)
           rest == Tail(req[r].todo)
           next == [req[r] EXCEPT !.todo = rest, !.valid = validRecipients,
                                  !.notFound = notFound]
       IN  req' = [req EXCEPT ![r] =
               IF rest # <<>> THEN next
               ELSE IF validRecipients = <<>>
                    THEN [NoReq EXCEPT !.pc = "done", !.resp = 422,
                                       !.code = "RECIPIENTS_NOT_FOUND",
                                       !.valid = validRecipients, !.notFound = notFound,
                                       !.writes = req[r].writes, !.replay = req[r].replay,
                                       !.refused = req[r].bundle.hash]
                    ELSE [next EXCEPT !.pc = "insertTez"]]
    /\ UNCHANGED <<now, config, federatedServers, federatedTez, welcomeVars, libVars, outVars,
                   contacts, tez, tezContext, tezRecipients, served, accepted>>

\* a write of the handler throws: the catch answers 500
Throw(r) ==
    /\ req' = [req EXCEPT ![r] = Reply(r, 500, "INTERNAL_ERROR")]
    /\ UNCHANGED faults

\* db.insert(tez)
InsertTez(r) ==
    /\ req[r].pc = "insertTez"
    /\ \/ /\ tez' = Append(tez, [id |-> Len(tez) + 1, bundleHash |-> req[r].bundle.hash])
          /\ req' = [req EXCEPT ![r].localTezId = Len(tez) + 1, ![r].writes = @ + 1,
                                ![r].todo = req[r].bundle.context,
                                ![r].pc = IF req[r].bundle.context = <<>>
                                          THEN "insertRecipients" ELSE "insertContext"]
          /\ UNCHANGED faults
       \/ /\ Throw(r)
          /\ UNCHANGED tez
    /\ UNCHANGED <<now, config, federatedServers, federatedTez, welcomeVars, libVars, cache,
                   federationOutbox, th, obs, contacts, tezContext,
                   tezRecipients, served, accepted>>

\* sanitizeContextItem and db.insert(tezContext) for one context item
InsertContext(r) ==
    /\ req[r].pc = "insertContext"
    /\ LET ctx == Head(req[r].todo)
           rest == Tail(req[r].todo)
       IN  \/ /\ ctx # "long"
              /\ tezContext' = Append(tezContext, [tezId |-> req[r].localTezId])
              /\ req' = [req EXCEPT ![r].todo = rest, ![r].writes = @ + 1,
                                    ![r].pc = IF rest = <<>> THEN "insertRecipients"
                                              ELSE "insertContext"]
              /\ UNCHANGED faults
           \/ \* content longer than MAX_CONTEXT_CONTENT_LENGTH: sanitizeContextItem throws
              /\ ctx = "long"
              /\ req' = [req EXCEPT ![r] = Reply(r, 500, "INTERNAL_ERROR")]
              /\ UNCHANGED <<tezContext, faults>>
           \/ /\ ctx # "long"
              /\ Throw(r)
              /\ UNCHANGED tezContext
    /\ UNCHANGED <<now, config, federatedServers, federatedTez, welcomeVars, libVars, cache,
                   federationOutbox, th, obs, contacts, tez, tezRecipients,
                   served, accepted>>

\* recipients still to be recorded: those of validRecipients past the rows written
RecipientsLeft(r) ==
    LET done == Cardinality({i \in 1..Len(tezRecipients) :
                                 tezRecipients[i].tezId = req[r].localTezId})
    IN  SubSeq(req[r].valid, done + 1, Len(req[r].valid))

\* db.insert(tezRecipients) for one valid recipient
InsertRecipient(r) ==
    /\ req[r].pc = "insertRecipients"
    /\ LET left == RecipientsLeft(r)
       IN  \/ /\ tezRecipients' = Append(tezRecipients,
                     [tezId |-> req[r].localTezId, userId |-> Head(left).user])
              /\ req' = [req EXCEPT ![r].writes = @ + 1,
                                    ![r].pc = IF Len(left) = 1 THEN "insertFederated"
                                              ELSE "insertRecipients"]
              /\ UNCHANGED faults
           \/ /\ Throw(r)
              /\ UNCHANGED tezRecipients
    /\ UNCHANGED <<now, config, federatedServers, federatedTez, welcomeVars, libVars, cache,
                   federationOutbox, th, obs, contacts, tez, tezContext,
                   served, accepted>>

\* db.insert(federatedTez), direction inbound
InsertFederated(r) ==
    /\ req[r].pc = "insertFederated"
    /\ \/ /\ federatedTez' = Append(federatedTez,
                 [localTezId |-> req[r].localTezId,
                  remoteHost |-> req[r].bundle.sender_server,
                  direction |-> "inbound", bundleHash |-> req[r].bundle.hash])
          /\ req' = [req EXCEPT ![r].writes = @ + 1, ![r].pc = "lastSeen"]
          /\ UNCHANGED faults
       \/ /\ Throw(r)
          /\ UNCHANGED federatedTez
    /\ UNCHANGED <<now, config, federatedServers, welcomeVars, libVars, cache, federationOutbox,
                   th, obs, contacts, tez, tezContext, tezRecipients, served,
                   accepted>>

\* db.update(federatedServers).set({lastSeenAt}) where host = sender.host
UpdateLastSeen(r) ==
    /\ req[r].pc = "lastSeen"
    /\ \/ /\ federatedServers' =
                 IF Registered(req[r].sender)
                 THEN [federatedServers EXCEPT ![req[r].sender].lastSeenAt = now]
                 ELSE federatedServers
          /\ req' = [req EXCEPT ![r].writes = @ + 1, ![r].pc = "audit"]
          /\ UNCHANGED faults
       \/ /\ Throw(r)
          /\ UNCHANGED federatedServers
    /\ UNCHANGED <<now, config, federatedTez, welcomeVars, libVars, cache, federationOutbox, th,
                   obs, contacts, tez, tezContext, tezRecipients, served,
                   accepted>>

\* the last step answering 200 whatever was not found
RespondAlways200(r) ==
    /\ req[r].pc = "audit"
    /\ req' = [req EXCEPT ![r] =
           [req[r] EXCEPT !.pc = "done", !.sender = "", !.code = "accepted", !.resp = 200]]
    /\ accepted' = accepted \cup {req[r].bundle.hash}
    /\ UNCHANGED <<now, config, federatedServers, federatedTez, welcomeVars, libVars, cache,
                   federationOutbox, th, faults, obs, contacts, tez, tezContext,
                   tezRecipients, served>>

\* recordAudit("federation.received"), then 207 if some recipient was not found,
\* 200 otherwise
Respond200(r) ==
    /\ req[r].pc = "audit"
    /\ \/ /\ req' = [req EXCEPT ![r] =
                 [req[r] EXCEPT !.pc = "done", !.sender = "", !.code = "accepted",
                                !.resp = IF Len(req[r].notFound) > 0 THEN 207 ELSE 200]]
          /\ accepted' = accepted \cup {req[r].bundle.hash}
          /\ UNCHANGED faults
       \/ /\ Throw(r)
          /\ UNCHANGED accepted
    /\ UNCHANGED <<now, config, federatedServers, federatedTez, welcomeVars, libVars, cache,
                   federationOutbox, th, obs, contacts, tez, tezContext,
                   tezRecipients, served>>

\* POST /contacts/register of a new user: tezAddress = userId@relayHost
RegisterContact(user) ==
    /\ Addr(user, LocalHost) \notin contacts
    /\ contacts' = contacts \cup {Addr(user, LocalHost)}
    /\ UNCHANGED <<now, config, federatedServers, federatedTez, welcomeVars, libVars, outVars,
                   tez, tezContext, tezRecipients, req, served, accepted>>

----------------------------------------------------------------------------
(* The inbound pipeline with the registry and the contacts it reads *)

InHosts == {"h1"}
LocalUsers == {"alice"}

ToLists ==
    { <<Addr("alice", LocalHost)>>,
      <<Addr("alice", LocalHost), Addr("bob", LocalHost)>>,
      <<Addr("x", "h1"), Addr("bob", LocalHost)>>,
      <<Addr("x", "h1"), Addr("carol", "")>> }

\* bundle_hash covers tez and context but not the recipient list (computeBundleHash):
\* bundles with one hash differ in "to" only
SomeBundle == [wellFormed |-> TRUE, hash |-> 2, to |-> <<Addr("alice", LocalHost)>>,
               sender_server |-> "h1", sender_server_id |-> "s1", context |-> <<>>]

\* one message sent to each recipient list, a second message without context and a
\* third whose context item is longer than sanitizeContextItem allows
Bundles ==
    {[SomeBundle EXCEPT !.hash = 1, !.to = to, !.context = <<"ok">>] : to \in ToLists}
        \cup {SomeBundle, [SomeBundle EXCEPT !.hash = 3, !.context = <<"long">>]}

GoodInput == [large |-> FALSE, headers |-> TRUE, keyId |-> "s1", signedBy |-> "k1",
              intact |-> TRUE, bundle |-> SomeBundle]

\* the requests tried: correctly built ones with every bundle, and one request
\* for each single defect
InboxInputs ==
    {[GoodInput EXCEPT !.bundle = b] : b \in Bundles}
        \cup {[GoodInput EXCEPT !.large = TRUE],
              [GoodInput EXCEPT !.headers = FALSE],
              [GoodInput EXCEPT !.keyId = ""],
              [GoodInput EXCEPT !.keyId = "s2"],
              [GoodInput EXCEPT !.signedBy = "k2"],
              [GoodInput EXCEPT !.intact = FALSE],
              [GoodInput EXCEPT !.bundle.wellFormed = FALSE]}

InitIn ==
    /\ now = 0
    /\ config \in [federationEnabled : BOOLEAN, federationMode : {"allowlist", "open"}]
    /\ federatedServers = [h \in RemoteHosts |-> NoPeer]
    /\ cache = [h \in RemoteHosts |-> 0]
    /\ federationOutbox = <<>>
    /\ federatedTez = <<>>
    /\ th = [p \in Procs |-> Idle]
    /\ faults = 0
    /\ obs = <<>>
    /\ welcomeSentTo = {}
    /\ welcomes = [h \in RemoteHosts |-> 0]
    /\ welcomePost = [h \in RemoteHosts |-> "none"]
    /\ contacts = {}
    /\ tez = <<>>
    /\ tezContext = <<>>
    /\ tezRecipients = <<>>
    /\ req = [r \in Reqs |-> NoReq]
    /\ served = 0
    /\ accepted = {}
    /\ SigIdle
    /\ BundleIdle
    /\ DiscIdle
    /\ ApiIdle
    /\ IdIdle

NextIn ==
    \/ \E r \in Reqs, in \in InboxInputs : Receive(r, in)
    \/ \E r \in Reqs : DupCheck(r)
    \/ \E r \in Reqs : Resolve(r)
    \/ \E r \in Reqs : InsertTez(r)
    \/ \E r \in Reqs : InsertContext(r)
    \/ \E r \in Reqs : InsertRecipient(r)
    \/ \E r \in Reqs : InsertFederated(r)
    \/ \E r \in Reqs : UpdateLastSeen(r)
    \/ \E r \in Reqs : Respond200(r)
    \/ \E user \in LocalUsers : RegisterContact(user)
    \/ \E h \in InHosts : Handshake(h, "s1", "k1")
    \/ \E h \in InHosts, level \in TrustLevels : AdminSetTrust(h, level)
    \/ \E h \in InHosts : AdminDelete(h)

SpecIn == InitIn /\ [][NextIn]_vars

----------------------------------------------------------------------------
(* The inbound pipeline under allowlist mode with a second party: besides *)
(* the peer (server id "s1", key "k1") an intruder (server id "s2", key   *)
(* "k2") sends handshakes and signed deliveries.  Admins promote a host   *)
(* only while its row holds the peer's key.                                *)

Parties == {<<"s1", "k1">>, <<"s2", "k2">>}

\* a delivery built and signed by the intruder
IntruderInput == [GoodInput EXCEPT !.keyId = "s2", !.signedBy = "k2",
                                   !.bundle = [SomeBundle EXCEPT !.hash = 1,
                                                                 !.context = <<"ok">>]]

InitIntruder ==
    /\ InitIn
    /\ config = [federationEnabled |-> TRUE, federationMode |-> "allowlist"]

NextIntruder ==
    \/ \E r \in Reqs, in \in InboxInputs \cup {IntruderInput} : Receive(r, in)
    \/ \E r \in Reqs : DupCheck(r)
    \/ \E r \in Reqs : Resolve(r)
    \/ \E r \in Reqs : InsertTez(r)
    \/ \E r \in Reqs : InsertContext(r)
    \/ \E r \in Reqs : InsertRecipient(r)
    \/ \E r \in Reqs : InsertFederated(r)
    \/ \E r \in Reqs : UpdateLastSeen(r)
    \/ \E r \in Reqs : Respond200(r)
    \/ \E user \in LocalUsers : RegisterContact(user)
    \/ \E h \in InHosts, party \in Parties : Handshake(h, party[1], party[2])
    \/ \E h \in InHosts, level \in TrustLevels :
          /\ level = "trusted" => federatedServers[h].publicKey = "k1"
          /\ AdminSetTrust(h, level)
    \/ \E h \in InHosts : AdminDelete(h)

SpecIntruder == InitIntruder /\ [][NextIntruder]_vars

----------------------------------------------------------------------------
(* Claims about the outbound engine *)

Entries == 1..Len(federationOutbox)

\* C1: once an entry is delivered or expired, no step changes its status,
\* attempts, deliveredAt or error
C1_TerminalIsFinal ==
    [][\A e \in Entries :
          Terminal(federationOutbox[e].status) =>
              /\ federationOutbox'[e].status = federationOutbox[e].status
              /\ federationOutbox'[e].attempts = federationOutbox[e].attempts
              /\ federationOutbox'[e].deliveredAt = federationOutbox[e].deliveredAt
              /\ federationOutbox'[e].error = federationOutbox[e].error]_vars

StatusAfterFailures(n) ==
    IF n = 0 THEN "pending" ELSE IF n < MAX_ATTEMPTS THEN "failed" ELSE "expired"

\* C2: an entry all of whose attempts fail is pending, then failed after each of
\* the first four failed attempts, then expired at the fifth, and is never
\* attempted a sixth time
C2_ExpiresAtFifthFailure ==
    \A e \in Entries :
        (~obs[e].got2xx /\ ~obs[e].faulted) =>
            /\ obs[e].failed <= MAX_ATTEMPTS
            /\ federationOutbox[e].status = StatusAfterFailures(obs[e].failed)

Range(s) == {s[i] : i \in 1..Len(s)}

\* C3: the waits scheduled for an entry that fails until it expires are
\* 1 minute, 5 minutes, 30 minutes, 2 hours and 12 hours
C3_WaitsFollowSchedule ==
    \A e \in Entries :
        (federationOutbox[e].status = "expired" /\ ~obs[e].got2xx /\ ~obs[e].faulted
            /\ ~obs[e].offSchedule) =>
            obs[e].waits = Range(RETRY_DELAYS_MS)

\* C4: no two calls have an attempt for the same entry outstanding at once
C4_AttemptsSequential ==
    \A p, q \in Procs :
        (p # q /\ InAttempt(p) /\ InAttempt(q)) => th[p].cur # th[q].cur

\* C5: an attempt begun after an admin blocked the target host sends no bundle
\* to it
C5_HaltedHostGetsNoPost ==
    \A p \in Procs : th[p].pc = "post" => ~th[p].halted

\* C6: an entry that ends expired never got a 2xx/207 answer from the remote inbox
C6_ExpiredOnlyWithoutSuccess ==
    \A e \in Entries :
        (federationOutbox[e].status = "expired"
            /\ \A p \in Procs : InAttempt(p) => th[p].cur # e) => ~obs[e].got2xx

----------------------------------------------------------------------------
(* Claims about the inbound pipeline *)

\* the error codes of the checks that precede the replay lookup
ScreenCodes == {"FEDERATION_DISABLED", "BUNDLE_TOO_LARGE", "MISSING_SIGNATURE",
                "INVALID_SIGNATURE", "UNKNOWN_SERVER", "SERVER_BLOCKED",
                "SERVER_NOT_TRUSTED", "INVALID_BUNDLE"}

\* rows of federated_tez recording a received bundle with this hash
InboundRows(hash) ==
    {i \in 1..Len(federatedTez) :
        federatedTez[i].direction = "inbound" /\ federatedTez[i].bundleHash = hash}

\* C7: a bundle that was answered 200/207 has its message and its inbound record
\* persisted, and a request that submits the same bundleHash after that answer
\* writes nothing and, once past the sender and signature checks, is answered
\* 409 DUPLICATE_BUNDLE
C7_ReplayRejected ==
    /\ \A hash \in accepted :
          /\ InboundRows(hash) # {}
          /\ \E i \in 1..Len(tez) : tez[i].bundleHash = hash
    /\ \A r \in Reqs :
          req[r].replay =>
              /\ req[r].pc \in {"dup", "done"}
              /\ req[r].writes = 0
              /\ req[r].localTezId = 0
              /\ (req[r].pc = "done" /\ req[r].code \notin ScreenCodes) =>
                     (req[r].resp = 409 /\ req[r].code = "DUPLICATE_BUNDLE")

\* a request that repeated an accepted bundle has been answered 409
C7_Witness ==
    \E r \in Reqs :
        req[r].replay /\ req[r].pc = "done" /\ req[r].resp = 409 /\ req[r].writes = 0

\* C8: there is at most one inbound federated_tez row per bundleHash
C8_OneInboundRecordPerHash ==
    \A i, j \in 1..Len(federatedTez) :
        (federatedTez[i].direction = "inbound" /\ federatedTez[j].direction = "inbound"
            /\ federatedTez[i].bundleHash = federatedTez[j].bundleHash) => i = j

\* request r has looked up all its local recipients and none is a contact
NoneResolved(r) ==
    req[r].pc \notin {"idle", "dup", "resolve"}
        /\ req[r].valid = <<>> /\ req[r].notFound # <<>>

\* C9: a request none of whose local recipients resolves is answered
\* 422 RECIPIENTS_NOT_FOUND and has written nothing: no tez, context, recipient or
\* federated_tez row and no lastSeenAt update
C9_NoneResolvedWritesNothing ==
    \A r \in Reqs :
        /\ NoneResolved(r) =>
              /\ req[r].pc = "done"
              /\ req[r].resp = 422 /\ req[r].code = "RECIPIENTS_NOT_FOUND"
              /\ req[r].writes = 0
              /\ req[r].localTezId = 0
        /\ req[r].code = "RECIPIENTS_NOT_FOUND" => NoneResolved(r)

\* a request was rejected because none of its local recipients resolved
C9_Witness ==
    \E r \in Reqs :
        req[r].pc = "done" /\ req[r].code = "RECIPIENTS_NOT_FOUND" /\ Len(req[r].notFound) >= 1

Accepted(r) == req[r].pc = "done" /\ req[r].resp \in {200, 207}

\* the userIds of the tez_recipients rows of a tez, in insertion order
RecipientRows(tezId) ==
    LET rows == SelectSeq(tezRecipients, LAMBDA row : row.tezId = tezId)
    IN  [i \in 1..Len(rows) |-> rows[i].userId]

\* C10: for an accepted request the tez_recipients rows of its tez are exactly its
\* resolved local recipients, resolved and unresolved together are exactly the local
\* recipients of the bundle, every resolved one is a contact, the answer is 200 iff
\* none is unresolved and 207 iff some but not all are unresolved
C10_RecipientsAndStatus ==
    \A r \in Reqs :
        Accepted(r) =>
            LET localRecipients == SelectSeq(req[r].bundle.to, IsLocalRecipient)
                valid == req[r].valid
                notFound == req[r].notFound
            IN  /\ RecipientRows(req[r].localTezId) = [i \in 1..Len(valid) |-> valid[i].user]
                /\ Range(valid) \subseteq contacts
                /\ Range(valid) \cup Range(notFound) = Range(localRecipients)
                /\ Range(valid) \cap Range(notFound) = {}
                /\ Len(valid) + Len(notFound) = Len(localRecipients)
                /\ valid # <<>>
                /\ req[r].resp = 200 <=> notFound = <<>>
                /\ req[r].resp = 207 <=> (notFound # <<>> /\ valid # <<>>)

\* one request was accepted in part (207) and another in full (200)
C10_Witness ==
    \E r, q \in Reqs :
        /\ Accepted(r) /\ req[r].resp = 207 /\ Len(req[r].notFound) = 1
        /\ Accepted(q) /\ req[q].resp = 200 /\ Len(req[q].valid) = 1

\* C11: when no inbox request is running, every tez row the pipeline created has at
\* least one tez_recipients row and exactly one inbound federated_tez row with its
\* bundleHash
C11_StorageConsistent ==
    (\A r \in Reqs : req[r].pc \in {"idle", "done"}) =>
        \A i \in 1..Len(tez) :
            /\ RecipientRows(tez[i].id) # <<>>
            /\ Cardinality(InboundRows(tez[i].bundleHash)) = 1

\* C12: a request enters the persistence pipeline only in a step in which a
\* federated_servers row with the request's keyId exists, is not blocked, is trusted
\* if the mode is allowlist, and the request's signature verifies against the public
\* key of that row; and a request writes only after it has entered that way
C12_PersistOnlyAuthenticated ==
    [][\A r \in Reqs :
          /\ (req[r].pc \in {"idle", "done"} /\ req'[r].pc \notin {"idle", "done"}) =>
                LET a == req'[r].auth
                    h == req'[r].sender
                IN  /\ h \in RemoteHosts
                    /\ Registered(h)
                    /\ federatedServers[h].serverId = a.keyId
                    /\ federatedServers[h].trustLevel # "blocked"
                    /\ config.federationMode = "allowlist" =>
                           federatedServers[h].trustLevel = "trusted"
                    /\ a.intact
                    /\ a.signedBy = federatedServers[h].publicKey
          /\ req'[r].writes > req[r].writes => req[r].pc \notin {"idle", "done"}]_vars

\* a request persisted its tez after being authenticated under allowlist mode
C12_Witness ==
    \E r \in Reqs :
        /\ req[r].writes > 0
        /\ config.federationMode = "allowlist"
        /\ req[r].auth.signedBy = "k1" /\ req[r].auth.intact

\* C13: a request that names a signer and arrives while the federated_servers row
\* of that signer is blocked is answered 403 SERVER_BLOCKED; one whose signer has no
\* row is answered 403 UNKNOWN_SERVER; one whose signer's row is pending under
\* allowlist mode is answered 403 SERVER_NOT_TRUSTED; none of them writes anything
C13_RegistryRejections ==
    \A r \in Reqs :
        req[r].peerReject # "" =>
            /\ req[r].pc = "done"
            /\ req[r].resp = 403
            /\ req[r].code = req[r].peerReject
            /\ req[r].writes = 0
            /\ req[r].localTezId = 0

\* an admin blocked the peer and a delivery signed by it was then answered
\* 403 SERVER_BLOCKED
C13_Witness ==
    \E r \in Reqs, h \in RemoteHosts :
        /\ federatedServers[h].trustLevel = "blocked"
        /\ req[r].pc = "done" /\ req[r].peerReject = "SERVER_BLOCKED"
        /\ req[r].resp = 403

\* C14: under allowlist mode no request signed with the key of a party that no
\* admin promoted persists anything
C14_OnlyApprovedPersist ==
    \A r \in Reqs :
        (config.federationMode = "allowlist" /\ req[r].writes > 0) =>
            req[r].auth.signedBy = "k1"

----------------------------------------------------------------------------
(* The trust registry on its own: handshakes from any host under either
   federation mode, and the admin operations on the rows *)

InitRegistry ==
    /\ InitIn
    /\ config.federationEnabled

NextRegistry ==
    \/ \E h \in RemoteHosts, party \in Parties : Handshake(h, party[1], party[2])
    \/ \E h \in RemoteHosts, level \in TrustLevels : AdminSetTrust(h, level)
    \/ \E h \in RemoteHosts : AdminDelete(h)

SpecRegistry == InitRegistry /\ [][NextRegistry]_vars

\* the step inserts the registry row of host h
Created(h) == federatedServers[h] = NoPeer /\ federatedServers'[h] # NoPeer

\* C15 as stated: a handshake from a host not in the registry inserts the peer
\* at pending under allowlist mode with no welcome delivery, and at trusted
\* under open mode with exactly one welcome delivery to that host
C15_FreshHandshake ==
    [][\A h \in RemoteHosts : Created(h) =>
          IF config.federationMode = "allowlist"
          THEN /\ federatedServers'[h].trustLevel = "pending"
               /\ welcomes' = welcomes
          ELSE /\ federatedServers'[h].trustLevel = "trusted"
               /\ welcomes' = [welcomes EXCEPT ![h] = @ + 1]]_vars

\* C15 amended: the same, except that under open mode the welcome delivery is
\* made only if the host has not been welcomed before in this process lifetime;
\* a host welcomed before gets none
C15_FreshHandshakeDedup ==
    [][\A h \in RemoteHosts : Created(h) =>
          IF config.federationMode = "allowlist"
          THEN /\ federatedServers'[h].trustLevel = "pending"
               /\ welcomes' = welcomes
          ELSE /\ federatedServers'[h].trustLevel = "trusted"
               /\ welcomes' = [welcomes EXCEPT ![h] =
                                  IF h \in welcomeSentTo THEN @ ELSE @ + 1]]_vars

C15_Witness ==
    /\ config.federationMode = "open"
    /\ federatedServers["h2"] # NoPeer
    /\ federatedServers["h2"].trustLevel = "trusted"
    /\ federatedServers["h2"].serverId = "s2"
    /\ welcomes["h2"] = 1
    /\ federatedServers["h1"] = NoPeer
    /\ welcomes["h1"] = 1

\* C16: a new row starts at pending, or at trusted under open mode, and the
\* trust level of an existing row changes only from pending to trusted, from
\* pending to blocked or from trusted to blocked; a blocked row stays blocked
C16_TrustTransitions ==
    [][\A h \in RemoteHosts :
          /\ Created(h) =>
                federatedServers'[h].trustLevel =
                    IF config.federationMode = "open" THEN "trusted" ELSE "pending"
          /\ (federatedServers[h] # NoPeer /\ federatedServers'[h] # NoPeer
                /\ federatedServers'[h].trustLevel # federatedServers[h].trustLevel) =>
                <<federatedServers[h].trustLevel, federatedServers'[h].trustLevel>>
                    \in {<<"pending", "trusted">>, <<"pending", "blocked">>,
                         <<"trusted", "blocked">>}]_vars

\* C17: no host is sent more than one welcome delivery, whatever handshakes,
\* admin trust changes and deletions happen, and an admin promotion to trusted
\* of a peer that was not trusted and has not been welcomed sends exactly one
C17_OneWelcomePerHost ==
    /\ [](\A h \in RemoteHosts : welcomes[h] <= 1)
    /\ [][\A h \in RemoteHosts :
             (/\ federatedServers[h] # NoPeer
              /\ federatedServers'[h] # NoPeer
              /\ federatedServers[h].trustLevel # "trusted"
              /\ federatedServers'[h].trustLevel = "trusted"
              /\ h \notin welcomeSentTo) =>
                 welcomes' = [welcomes EXCEPT ![h] = @ + 1]]_vars

C17_Witness ==
    /\ config.federationMode = "allowlist"
    /\ federatedServers["h1"] # NoPeer
    /\ federatedServers["h1"].trustLevel = "trusted"
    /\ welcomes["h1"] = 1
    /\ federatedServers["h2"] # NoPeer
    /\ federatedServers["h2"].trustLevel = "pending"
    /\ welcomes["h2"] = 1

----------------------------------------------------------------------------
(* signRequest and verifyRequest on their own: the request, the key pair and
   the signer's clock are drawn at the start; the request is signed, may be
   altered on its way, and is verified once *)

SigInputs ==
    [method : Methods, path : {"/federation/inbox"}, host : {"relay.b"}, body : Bodies,
     key : KeyPairs, clock : SignClocks]

InitSig ==
    /\ now = 0
    /\ config = [federationEnabled |-> TRUE, federationMode |-> "allowlist"]
    /\ federatedServers = [h \in RemoteHosts |-> NoPeer]
    /\ cache = [h \in RemoteHosts |-> 0]
    /\ federationOutbox = <<>>
    /\ federatedTez = <<>>
    /\ th = [p \in Procs |-> Idle]
    /\ faults = 0
    /\ obs = <<>>
    /\ welcomeSentTo = {}
    /\ welcomes = [h \in RemoteHosts |-> 0]
    /\ welcomePost = [h \in RemoteHosts |-> "none"]
    /\ contacts = {}
    /\ tez = <<>>
    /\ tezContext = <<>>
    /\ tezRecipients = <<>>
    /\ req = [r \in Reqs |-> NoReq]
    /\ served = 0
    /\ accepted = {}
    /\ sigIn \in SigInputs
    /\ wire = NoWire
    /\ verdict = NoVerdict
    /\ BundleIdle
    /\ DiscIdle
    /\ ApiIdle
    /\ IdIdle

NextSig ==
    \/ Sign
    \/ \E date \in {[kind |-> "text", sec |-> 0]} : SignRaw(date)
    \/ \E t \in Tamperings : Tamper(t[1], t[2])
    \/ \E body \in Bodies : Rebody(body)
    \/ \E publicKeyBase64 \in KeyPairs \cup {BadKey},
          clock \in {100000 + d : d \in Skews} : Verify(publicKeyBase64, clock)

SpecSig == InitSig /\ [][NextSig]_vars

\* the public key is the one of the pair the request was signed with
Matching == verdict.publicKeyBase64 = verdict.params.signedBy

\* milliseconds between the verifier's clock and the Date header, where the
\* header is a date
Skew ==
    LET t == verdict.params.date.sec * 1000
    IN  IF verdict.clock >= t THEN verdict.clock - t ELSE t - verdict.clock

\* C18: verifying the headers signRequest produced, with the same request, the
\* matching public key and a clock within the window, gives true; a different
\* body or a different public key gives false
C18_RoundTrip ==
    (verdict.state = "done" /\ verdict.params.signedBy # "") =>
        /\ (verdict.params.pristine /\ Matching /\ Skew <= WINDOW_MS) =>
               verdict.result = "true"
        /\ (verdict.params.body # verdict.params.signedBody \/ ~Matching) =>
               verdict.result = "false"

C18_Witness ==
    /\ verdict.state = "done"
    /\ verdict.params.pristine
    /\ Matching
    /\ sigIn.clock = 100999
    /\ verdict.clock = 160000
    /\ verdict.params.method = "POST"
    /\ verdict.result = "true"

\* what verifyRequest returns for the verified request at the instant its Date
\* header names
AtDate ==
    verifyRequest([verdict.params EXCEPT !.state = "sent"] @@
                      [publicKeyBase64 |-> verdict.publicKeyBase64],
                  verdict.params.date.sec * 1000)

\* C19: with a Date header more than 60 seconds from the verifier's clock, in
\* the past or in the future, verifyRequest returns false whatever the
\* signature; at 60 seconds or less the result is the one at no skew at all
C19_SkewWindow ==
    (verdict.state = "done" /\ verdict.params.date.kind = "utc") =>
        /\ Skew > WINDOW_MS => verdict.result = "false"
        /\ Skew <= WINDOW_MS => verdict.result = AtDate

C19_Witness ==
    /\ verdict.state = "done"
    /\ verdict.params.pristine
    /\ Matching
    /\ verdict.params.date = ToUTCString(100000)
    /\ verdict.clock = 39999
    /\ verdict.result = "false"
    /\ AtDate = "true"

\* the verified request has an unparseable or missing Date header, an
\* undecodable public key or signature, or a missing body, digest or signature
Malformed ==
    \/ verdict.params.date.kind # "utc"
    \/ verdict.publicKeyBase64 \notin KeyPairs
    \/ verdict.params.signature.kind # "sig"
    \/ verdict.params.body = Undefined
    \/ verdict.params.digest = NoDigest

\* C20: verifyRequest returns a boolean and never throws, and it returns false
\* for every malformed input, also when the peer's real key signed the
\* malformed Date value
C20_MalformedIsFalse ==
    verdict.state = "done" =>
        /\ verdict.result \in {"true", "false"}
        /\ Malformed => verdict.result = "false"

----------------------------------------------------------------------------
(* createBundle and validateBundle on their own: a bundle is built from
   drawn parameters, may be built again with its keys in another order or
   have one field changed, and is validated once *)

TezInputs ==
    {<<<<"id", "t1">>, <<"surfaceText", text>>, <<"createdAt", "2026-01-01">>>> :
        text \in {"hello", ""}}
    \cup {<<<<"createdAt", "2026-01-01">>, <<"surfaceText", text>>, <<"id", "t1">>>> :
        text \in {"hello", ""}}

ContextInputs ==
    {<<>>,
     << <<<<"layer", "background">>, <<"content", "c1">>>> >>,
     << <<<<"content", "c1">>, <<"layer", "background">>>> >>}

BundleFields ==
    {"bundle_type", "sender_server", "sender_server_id", "from", "to", "tez", "context",
     "bundle_hash"}

BundleInputs ==
    [tez : TezInputs, context : ContextInputs, from : {"alice@relay.a", ""},
     to : {<<>>, <<"bob@h1">>}, identity : {[host |-> "relay.a", serverId |-> "s0"]}]

InitBundle ==
    /\ now = 0
    /\ config = [federationEnabled |-> TRUE, federationMode |-> "allowlist"]
    /\ federatedServers = [h \in RemoteHosts |-> NoPeer]
    /\ cache = [h \in RemoteHosts |-> 0]
    /\ federationOutbox = <<>>
    /\ federatedTez = <<>>
    /\ th = [p \in Procs |-> Idle]
    /\ faults = 0
    /\ obs = <<>>
    /\ welcomeSentTo = {}
    /\ welcomes = [h \in RemoteHosts |-> 0]
    /\ welcomePost = [h \in RemoteHosts |-> "none"]
    /\ contacts = {}
    /\ tez = <<>>
    /\ tezContext = <<>>
    /\ tezRecipients = <<>>
    /\ req = [r \in Reqs |-> NoReq]
    /\ served = 0
    /\ accepted = {}
    /\ SigIdle
    /\ BundleIdle
    /\ DiscIdle
    /\ ApiIdle
    /\ IdIdle

NextBundle ==
    \/ \E params \in BundleInputs : Create(params)
    \/ \E params \in BundleInputs : Recreate(params)
    \/ \E key \in {"id", "surfaceText", "createdAt", "type"}, value \in {"x", ""} :
          AlterTez(key, value)
    \/ \E i \in 1..1, key \in {"layer", "content"}, value \in {"x", ""} :
          AlterContext(i, key, value)
    \/ \E field \in BundleFields \cup {"*"} : Strip(field)
    \/ Validate

SpecBundle == InitBundle /\ [][NextBundle]_vars

\* C21 as stated: validating what createBundle returned succeeds for every
\* input, and after a change to any field of the payload or of a context
\* item, bundle_hash left as it was, validation fails with the hash mismatch
C21_BuildValidates ==
    validated.state = "done" =>
        /\ validated.of.state = "built" => validated.result = "null"
        /\ validated.of.state = "altered" => validated.result = "Bundle hash mismatch"

\* the parameters name a sender, at least one recipient and a tez with id,
\* surfaceText and createdAt
WellFormed(params) ==
    /\ ~Falsy(params.identity.host)
    /\ ~Falsy(params.identity.serverId)
    /\ ~Falsy(params.from)
    /\ Len(params.to) > 0
    /\ \A key \in {"id", "surfaceText", "createdAt"} : ~Falsy(Get(params.tez, key))

\* C21 amended: validating what createBundle returned succeeds for every input
\* that names a sender, a recipient and the required tez fields; after a
\* change to one field of the payload or of a context item of such a bundle
\* validation fails: with the missing-fields error if the change emptied a
\* required tez field, with the hash mismatch otherwise
C21_BuildValidatesWellFormed ==
    (validated.state = "done" /\ WellFormed(validated.of.params)) =>
        /\ validated.of.state = "built" => validated.result = "null"
        /\ validated.of.state = "altered" =>
              validated.result =
                  IF \E key \in {"id", "surfaceText", "createdAt"} :
                         Falsy(Get(validated.of.b.tez, key))
                  THEN "Missing required tez fields (id, surfaceText, createdAt)"
                  ELSE "Bundle hash mismatch"

C21_Witness ==
    /\ validated.state = "done"
    /\ WellFormed(validated.of.params)
    /\ validated.of.state = "altered"
    /\ validated.of.altered = "content"
    /\ validated.result = "Bundle hash mismatch"

\* C22: building a bundle again from the same payload and context keys and
\* values, put in in another order, gives the same bundle_hash
C22_HashIgnoresKeyOrder ==
    built.state = "rebuilt" => built.b.bundle_hash = built.firstHash

----------------------------------------------------------------------------
(* discoverServer on its own: one host whose string and DNS answer are drawn
   at the start, with handshakes and deletions changing its registry row and
   time passing between the calls *)

DiscHosts == {"h1"}
Pauses == {30, 60}

InitDiscover ==
    /\ now = 0
    /\ config = [federationEnabled |-> TRUE, federationMode |-> "allowlist"]
    /\ federatedServers = [h \in RemoteHosts |-> NoPeer]
    /\ cache = [h \in RemoteHosts |-> 0]
    /\ federationOutbox = <<>>
    /\ federatedTez = <<>>
    /\ th = [p \in Procs |-> Idle]
    /\ faults = 0
    /\ obs = <<>>
    /\ welcomeSentTo = {}
    /\ welcomes = [h \in RemoteHosts |-> 0]
    /\ welcomePost = [h \in RemoteHosts |-> "none"]
    /\ contacts = {}
    /\ tez = <<>>
    /\ tezContext = <<>>
    /\ tezRecipients = <<>>
    /\ req = [r \in Reqs |-> NoReq]
    /\ served = 0
    /\ accepted = {}
    /\ SigIdle
    /\ BundleIdle
    /\ dns \in {[h \in RemoteHosts |-> IF h \in DiscHosts THEN f ELSE PublicHost] :
                   f \in HostFacts}
    /\ discovered = NoFound
    /\ ApiIdle
    /\ IdIdle

NextDiscover ==
    \/ \E h \in DiscHosts, network \in {"ok", "down"} : DiscoverServer(h, network)
    \/ \E h \in DiscHosts : Handshake(h, "s1", "k1")
    \/ \E h \in DiscHosts : AdminDelete(h)
    \/ \E d \in Pauses : Elapse(d)

SpecDiscover == InitDiscover /\ [][NextDiscover]_vars

\* the host is, or has an A-record that is, a loopback, private or link-local
\* address, or its name is local-only
LocalTarget(host) ==
    \/ isPrivateIp(host.quad)
    \/ host.text = "localhost"
    \/ host.suffix \in {".local", ".internal"}
    \/ \E i \in 1..Len(host.resolve4.addresses) : isPrivateIp(host.resolve4.addresses[i])

\* C23: discoverServer for a host that is or resolves to a loopback, private or
\* link-local address, or that has a local-only name, is rejected, and no HTTPS
\* request to the host is made
C23_LocalTargetRejected ==
    (discovered.state = "done" /\ LocalTarget(dns[discovered.host])) =>
        /\ discovered.source = "error"
        /\ ~discovered.fetched

\* C30: discoverServer returns the cached entry, without a fetch, exactly when
\* the entry's expiry is in the future; on a miss it validates the host and
\* fetches; if that fails it returns the registry row of the host when there
\* is one and the error only when there is none; whatever it fetched or took
\* from the registry is cached for CACHE_TTL_MS, so no cache entry outlives it
C30_CacheAndFallback ==
    /\ \A h \in RemoteHosts : cache[h] <= now + CACHE_TTL_MS
    /\ discovered.state = "done" =>
          LET d == discovered
              valid == validateHost(dns[d.host])
          IN  /\ d.source = "cache" <=> d.before > d.at
              /\ d.source = "cache" => ~d.fetched /\ d.after = d.before
              /\ d.before <= d.at => (d.fetched <=> valid = "ok")
              /\ d.source = "network" => d.fetched
              /\ (d.before <= d.at /\ d.source # "network") =>
                    /\ d.row # NoPeer => d.source = "db"
                    /\ d.row = NoPeer => d.source = "error" /\ d.error # ""
              /\ d.source \in {"network", "db"} => d.after = d.at + CACHE_TTL_MS

C30_Witness ==
    /\ discovered.state = "done"
    /\ discovered.source = "db"
    /\ discovered.fetched
    /\ discovered.before = 60
    /\ discovered.at = 60
    /\ cache[discovered.host] = 120

----------------------------------------------------------------------------
(* The registry endpoints on their own, called by admins, other users and
   callers without a token, with time passing between the calls *)

ApiHosts == {"h1", "h2"}
Levels == TrustLevels \cup {"admin", ""}

InitApi ==
    /\ InitIn
    /\ config.federationEnabled

NextApi ==
    \/ \E caller \in Callers, h \in ApiHosts, level \in Levels : PatchServer(caller, h, level)
    \/ \E caller \in Callers, h \in ApiHosts : DeleteServer(caller, h)
    \/ \E h \in ApiHosts, party \in Parties \cup {<<"", "k1">>} :
          PostVerify(h, party[1], party[2])
    \/ \E d \in {100} : Elapse(d)

SpecApi == InitApi /\ [][NextApi]_vars

\* the step is a call of an endpoint: its response is reply', and the clock
\* moves only between calls
Called(op) == now' = now /\ reply'.op = op

\* C24: of the trust-management calls, one by a user who is not in the admin
\* list gets 403; an admin's setTrustLevel with a level outside pending,
\* trusted, blocked gets 400; an admin's setTrustLevel with a valid level, or
\* delete, on a host not in the registry gets 404; and none of them changes or
\* creates a registry row or sends a welcome
C24_AdminOnlyNoSideEffects ==
    [][(Called("patch") \/ Called("delete")) =>
        LET admin == reply'.caller \in AdminUserIds
            unchanged == federatedServers' = federatedServers /\ welcomes' = welcomes
        IN  /\ (reply'.caller # Anonymous /\ ~admin) => reply'.status = 403 /\ unchanged
            /\ (admin /\ reply'.op = "patch" /\ reply'.level \notin TrustLevels) =>
                  reply'.status = 400 /\ unchanged
            /\ (admin /\ (reply'.op = "delete" \/ reply'.level \in TrustLevels)
                      /\ federatedServers[reply'.host] = NoPeer) =>
                  reply'.status = 404 /\ unchanged
            /\ reply'.status # 200 => unchanged]_vars

C24_Witness ==
    /\ reply.op = "patch"
    /\ reply.caller = "mallory"
    /\ reply.level = "trusted"
    /\ reply.status = 403
    /\ reply.host = "h1"
    /\ federatedServers["h1"] # NoPeer
    /\ federatedServers["h1"].trustLevel = "blocked"
    /\ federatedServers["h2"] = NoPeer

\* C29: a handshake for a host already in the registry answers with the trust
\* level the row has and leaves that level and firstSeenAt as they were,
\* whatever server id and public key it carries; it stores the supplied server
\* id and public key, sets lastSeenAt to the time of the call, and sends no
\* welcome
C29_RehandshakeKeepsTrust ==
    [][(/\ Called("verify")
        /\ reply'.status = 200
        /\ federatedServers[reply'.host] # NoPeer) =>
            LET old == federatedServers[reply'.host]
                new == federatedServers'[reply'.host]
            IN  /\ reply'.body = old.trustLevel
                /\ new = [old EXCEPT !.serverId = reply'.sid, !.publicKey = reply'.key,
                                     !.lastSeenAt = now]
                /\ \A h \in RemoteHosts \ {reply'.host} :
                      federatedServers'[h] = federatedServers[h]
                /\ welcomes' = welcomes]_vars

C29_Witness ==
    /\ reply.op = "verify"
    /\ reply.status = 200
    /\ reply.body = "blocked"
    /\ reply.sid = "s2"
    /\ config.federationMode = "open"
    /\ federatedServers["h1"] # NoPeer
    /\ federatedServers["h1"].serverId = "s2"
    /\ federatedServers["h1"].trustLevel = "blocked"
    /\ federatedServers["h1"].firstSeenAt = 0
    /\ federatedServers["h1"].lastSeenAt = 100

----------------------------------------------------------------------------
(* The inbox with requests that fail several checks at once *)

OrderBundles ==
    {SomeBundle,
     [SomeBundle EXCEPT !.wellFormed = FALSE],
     [SomeBundle EXCEPT !.hash = 1, !.context = <<"ok">>],
     [SomeBundle EXCEPT !.hash = 1, !.context = <<"ok">>,
                        !.to = <<Addr("x", "h1"), Addr("carol", "")>>]}

\* every combination of defects of the headers, the signer, the signature and
\* the bundle
OrderInputs ==
    [large : BOOLEAN, headers : BOOLEAN, keyId : {"s1", "s2", ""}, signedBy : {"k1", "k2"},
     intact : BOOLEAN, bundle : OrderBundles]

NextOrder ==
    \/ \E r \in Reqs, in \in OrderInputs : Receive(r, in)
    \/ \E r \in Reqs : DupCheck(r)
    \/ \E r \in Reqs : Resolve(r)
    \/ \E r \in Reqs : InsertTez(r)
    \/ \E r \in Reqs : InsertContext(r)
    \/ \E r \in Reqs : InsertRecipient(r)
    \/ \E r \in Reqs : InsertFederated(r)
    \/ \E r \in Reqs : UpdateLastSeen(r)
    \/ \E r \in Reqs : Respond200(r)
    \/ \E user \in LocalUsers : RegisterContact(user)
    \/ \E h \in InHosts : Handshake(h, "s1", "k1")
    \/ \E h \in InHosts, level \in TrustLevels : AdminSetTrust(h, level)
    \/ \E h \in InHosts : AdminDelete(h)

SpecOrder == InitIn /\ [][NextOrder]_vars

\* the response the pipeline gives for a failed check
ResponseTo(check) ==
    CASE check = "enabled" -> <<404, "FEDERATION_DISABLED">>
      [] check = "size" -> <<413, "BUNDLE_TOO_LARGE">>
      [] check = "headers" -> <<401, "MISSING_SIGNATURE">>
      [] check = "keyId" -> <<401, "INVALID_SIGNATURE">>
      [] check = "known" -> <<403, "UNKNOWN_SERVER">>
      [] check = "blocked" -> <<403, "SERVER_BLOCKED">>
      [] check = "trusted" -> <<403, "SERVER_NOT_TRUSTED">>
      [] check = "signature" -> <<401, "INVALID_SIGNATURE">>
      [] check = "structure" -> <<422, "INVALID_BUNDLE">>

\* the tables the inbox writes
Tables == <<tez, tezContext, tezRecipients, federatedTez, federatedServers>>

\* C25: a request is answered for the first check it fails, in the order
\* enabled, (size,) headers, signer id, peer known, not blocked, trusted under
\* allowlist, signature, bundle structure, then duplicate, local recipient,
\* resolvable recipient; at a failed check the request ends, and no later check
\* and no write happens
C25_FirstFailureAnswers ==
    [][\A r \in Reqs :
          /\ (req[r].pc \in {"idle", "done"} /\ served' = served + 1 /\ req'[r] # req[r]) =>
                IF req'[r].first # ""
                THEN /\ req'[r].pc = "done"
                     /\ <<req'[r].resp, req'[r].code>> = ResponseTo(req'[r].first)
                     /\ req'[r].writes = 0
                     /\ Tables' = Tables
                ELSE req'[r].pc = "dup"
          /\ (req[r].pc = "dup" /\ req'[r].pc # "dup") =>
                IF \E i \in 1..Len(federatedTez) :
                       federatedTez[i].bundleHash = req[r].bundle.hash
                THEN /\ req'[r].pc = "done" /\ req'[r].resp = 409
                     /\ req'[r].writes = 0 /\ Tables' = Tables
                ELSE IF \A i \in 1..Len(req[r].bundle.to) :
                            ~IsLocalRecipient(req[r].bundle.to[i])
                THEN /\ req'[r].pc = "done" /\ req'[r].resp = 422
                     /\ req'[r].code = "NO_LOCAL_RECIPIENTS"
                     /\ req'[r].writes = 0 /\ Tables' = Tables
                ELSE req'[r].pc = "resolve"
          /\ (req[r].pc = "resolve" /\ req'[r].pc # "resolve") =>
                IF req'[r].valid = <<>>
                THEN /\ req'[r].pc = "done" /\ req'[r].resp = 422
                     /\ req'[r].code = "RECIPIENTS_NOT_FOUND"
                     /\ req'[r].writes = 0 /\ Tables' = Tables
                ELSE req'[r].pc = "insertTez"
          /\ req'[r].writes > req[r].writes => req[r].pc \notin {"idle", "done", "dup", "resolve"}
      ]_vars

C25_Witness ==
    \E r \in Reqs, h \in InHosts :
        /\ federatedServers[h] # NoPeer
        /\ federatedServers[h].trustLevel = "blocked"
        /\ federatedServers[h].publicKey = "k1"
        /\ req[r].pc = "done"
        /\ req[r].first = "blocked"
        /\ req[r].peerReject = "SERVER_BLOCKED"
        /\ req[r].resp = 403
        /\ req[r].replay

----------------------------------------------------------------------------
(* The rows of federation_outbox *)

\* call p's attempt for entry e ends in this step with its outcome written: the
\* remote answered, or discovery failed, and the update of the row went through
Concludes(p, e) ==
    /\ th[p].cur = e
    /\ th[p].pc \in {"discover", "post"}
    /\ th'[p].pc \notin {"discover", "post"}
    /\ faults' = faults

\* C26: every entry has the shape of its status (pending: attempts 0; failed:
\* 1..4 attempts and nextRetryAt set; expired: attempts 5; delivered: 1..5
\* attempts and deliveredAt set); attempts counts the delivery attempts made
\* for the entry, one more with each attempt that concludes, and never decreases
C26_EntryInvariants ==
    /\ [](\A e \in Entries :
             LET entry == federationOutbox[e]
             IN  /\ entry.status = "pending" => entry.attempts = 0
                 /\ entry.status = "failed" =>
                        entry.attempts >= 1 /\ entry.attempts <= 4
                            /\ entry.nextRetryAt # Null
                 /\ entry.status = "expired" => entry.attempts = 5
                 /\ entry.status = "delivered" =>
                        entry.attempts >= 1 /\ entry.attempts <= 5
                            /\ entry.deliveredAt # Null)
    /\ [][\A e \in Entries :
             /\ federationOutbox'[e].attempts >= federationOutbox[e].attempts
             /\ \A p \in Procs :
                    Concludes(p, e) =>
                        federationOutbox'[e].attempts = federationOutbox[e].attempts + 1]_vars

\* call p begins a delivery attempt in this step: processOutboxEntry has selected
\* the row and goes on to discovery
Begins(p) == th[p].pc = "entry" /\ th'[p].pc = "discover"

\* C27: an attempt begins only for an entry that is pending, or failed with
\* nextRetryAt at or before the current time, also when calls overlap; a sweep
\* that finds no due entry changes nothing
C27_AttemptsOnlyWhenDue ==
    [][/\ \A p \in Procs :
              Begins(p) =>
                  LET entry == federationOutbox[th[p].cur]
                  IN  \/ entry.status = "pending"
                      \/ entry.status = "failed" /\ entry.nextRetryAt <= now
       /\ \A p \in Sweeps :
              (th[p].pc = "fresh" /\ th'[p].pc = "idle") =>
                  UNCHANGED <<federationOutbox, federatedTez, federatedServers, cache>>]_vars

\* the outbound rows of federated_tez written for an entry
OutboundRecords(entry) ==
    {i \in 1..Len(federatedTez) :
        /\ federatedTez[i].direction = "outbound"
        /\ federatedTez[i].localTezId = entry.tezId
        /\ federatedTez[i].remoteHost = entry.targetHost
        /\ federatedTez[i].bundleHash = entry.tezId}

\* C28: an entry is delivered only after the remote inbox answered 2xx or 207 to
\* a POST of its bundle; once no attempt for it is outstanding, a delivered
\* entry has exactly one outbound record and an entry that is not delivered has
\* none
C28_DeliveredHasOneRecord ==
    \A e \in Entries :
        LET entry == federationOutbox[e]
        IN  /\ entry.status = "delivered" => obs[e].got2xx
            /\ (\A p \in Procs : InAttempt(p) => th[p].cur # e) =>
                   Cardinality(OutboundRecords(entry)) =
                       IF entry.status = "delivered" THEN 1 ELSE 0

----------------------------------------------------------------------------
(* Sharing a message with recipients on several hosts *)

Carol == <<"carol">>
BobLocal == <<"bob", "@", "local">>
BobH1 == <<"bob", "@", "h1">>
DanH1 == <<"dan", "@", "h1">>
EveH2 == <<"eve", "@", "h2">>
ViaLocalH2 == <<"x", "@", "local", "@", "h2">>

ShareLists ==
    {<<BobH1, Carol, DanH1>>, <<EveH2, BobH1, BobLocal>>, <<ViaLocalH2, BobH1, BobH1>>}

RouteProcs == {"route", "sweep1"}

NextRoute ==
    \/ \E p \in Routes, recipients \in ShareLists : Share(p, recipients)
    \/ \E p \in Routes : RouteInsert(p)
    \/ \E p \in RouteProcs : ReadEntry(p)
    \/ \E p \in RouteProcs, network \in {"hit", "ok", "down"} : Discover(p, network)
    \/ \E p \in RouteProcs, ok \in BOOLEAN : Respond(p, ok)
    \/ \E p \in RouteProcs : OkInsert(p)
    \/ \E p \in RouteProcs : OkAudit(p)
    \/ \E p \in RouteProcs \cap Sweeps : StartSweep(p)
    \/ \E p \in RouteProcs \cap Sweeps : SweepFresh(p)
    \/ \E t \in Instants : t <= RETRY_DELAYS_MS[1] /\ Tick(t)

SpecRoute == InitOut /\ [][NextRoute]_vars

\* occurrences of x in the sequence s
Count(x, s) == Cardinality({i \in 1..Len(s) : s[i] = x})

\* rows of federation_outbox of message t for host h
RowsFor(t, h) ==
    {e \in Entries : federationOutbox[e].tezId = t /\ federationOutbox[e].targetHost = h}

\* C31: the share of a message puts every recipient whose part after the last
\* "@" is another host in exactly the group of that host and every other
\* recipient in the local list, none lost or duplicated; route then inserts one
\* entry per destination host, pending with attempts 0, whose bundle and
\* targetAddresses are the recipients of that host, and none for the local host
C31_OneEntryPerHost ==
    [][\A p \in Routes :
          /\ (th[p].pc = "idle" /\ th'[p].pc = "insert") =>
                 LET recipients == th'[p].recipients
                     groups == th'[p].remote
                     IsRemote(a) ==
                         \E i \in 1..(Len(a) - 1) :
                             /\ a[i] = "@"
                             /\ \A j \in (i + 1)..Len(a) : a[j] # "@"
                             /\ a[i + 1] # LocalHost
                 IN  /\ LocalHost \notin DOMAIN groups
                     /\ \A k \in 1..Len(recipients) :
                            LET a == recipients[k]
                            IN  IF IsRemote(a)
                                THEN /\ Count(a, th'[p].local) = 0
                                     /\ \A h \in DOMAIN groups :
                                            Count(a, groups[h]) =
                                                IF h = a[Len(a)] THEN Count(a, recipients)
                                                ELSE 0
                                ELSE /\ Count(a, th'[p].local) = Count(a, recipients)
                                     /\ \A h \in DOMAIN groups : Count(a, groups[h]) = 0
                     /\ \A h \in DOMAIN groups :
                            \A k \in 1..Len(groups[h]) : Count(groups[h][k], recipients) > 0
                     /\ \A k \in 1..Len(th'[p].local) :
                            Count(th'[p].local[k], recipients) > 0
          /\ (th[p].pc = "insert" /\ Len(federationOutbox') > Len(federationOutbox)) =>
                 LET row == federationOutbox'[Len(federationOutbox')]
                 IN  /\ row.status = "pending" /\ row.attempts = 0
                     /\ row.targetHost \in DOMAIN th[p].remote
                     /\ row.targetHost # LocalHost
                     /\ row.targetAddresses = th[p].remote[row.targetHost]
                     /\ row.bundle.to = th[p].remote[row.targetHost]
                     /\ RowsFor(row.tezId, row.targetHost) = {}
          /\ (th[p].pc # "idle" /\ th'[p].pc = "idle" /\ faults' = 0) =>
                 /\ \A h \in DOMAIN th[p].remote :
                        Cardinality({e \in 1..Len(federationOutbox') :
                            /\ federationOutbox'[e].tezId = th[p].tez
                            /\ federationOutbox'[e].targetHost = h}) = 1
                 /\ \A e \in 1..Len(federationOutbox') :
                        federationOutbox'[e].tezId = th[p].tez =>
                            federationOutbox'[e].targetHost \in DOMAIN th[p].remote]_vars

\* a message shared with recipients on two hosts and a local one has been
\* routed: one entry for each of the two hosts
C31_Witness ==
    /\ Len(federationOutbox) = 2
    /\ federationOutbox[1].targetHost # federationOutbox[2].targetHost
    /\ federationOutbox[1].tezId = federationOutbox[2].tezId
    /\ th["route"].pc = "idle"
    /\ faults = 0

\* C32: an attempt for one entry changes no other entry, and while hosts of a
\* route or selected entries of a sweep remain, the end of an attempt, whatever
\* its outcome, is followed by the next one: the call does not end
C32_FailuresIsolated ==
    [][\A p \in Procs :
          (InAttempt(p) /\ th'[p] # th[p]) =>
              /\ \A e \in Entries :
                     e # th[p].cur => federationOutbox'[e] = federationOutbox[e]
              /\ th[p].todo # <<>> => th'[p].pc # "idle"]_vars

\* C33: validateBundle reports the first failing check in the order object,
\* bundle type, sender host, sender node id, from, non-empty to, payload,
\* required payload fields, context list, bundle hash present, hash equality;
\* the hash mismatch is reported only when every structural check passes, its
\* message differs from every other failure's, and validating changes nothing
C33_StructureBeforeIntegrity ==
    /\ [](validated.state = "done" =>
            LET b == validated.of.b
                Checks ==
                    << <<~b.isObject, "Bundle must be an object">>,
                       <<"bundle_type" \in b.absent \/ b.bundle_type # "federation_delivery",
                         "Invalid bundle_type">>,
                       <<"sender_server" \in b.absent \/ b.sender_server \in {"", Undefined},
                         "Missing sender_server">>,
                       <<"sender_server_id" \in b.absent
                             \/ b.sender_server_id \in {"", Undefined},
                         "Missing sender_server_id">>,
                       <<"from" \in b.absent \/ b.from \in {"", Undefined},
                         "Missing from address">>,
                       <<"to" \in b.absent \/ b.to = <<>>, "Missing or empty to addresses">>,
                       <<"tez" \in b.absent, "Missing tez payload">>,
                       <<\E key \in {"id", "surfaceText", "createdAt"} :
                             Get(b.tez, key) \in {"", Undefined},
                         "Missing required tez fields (id, surfaceText, createdAt)">>,
                       <<"context" \in b.absent, "Missing context array">>,
                       <<"bundle_hash" \in b.absent \/ b.bundle_hash = NoHash,
                         "Missing bundle_hash">>,
                       <<b.bundle_hash # computeBundleHash(b.tez, b.context),
                         "Bundle hash mismatch">> >>
                failing == {i \in 1..11 : Checks[i][1]}
            IN  /\ validated.result =
                       IF failing = {} THEN "null"
                       ELSE Checks[CHOOSE i \in failing : \A j \in failing : i <= j][2]
                /\ validated.result = "Bundle hash mismatch" => failing = {11}
                /\ \A i, j \in 1..11 : i # j => Checks[i][2] # Checks[j][2])
    /\ [][validated' # validated =>
             UNCHANGED <<built, now, config, federatedServers, federatedTez, welcomeVars,
                         outVars, inVars>>]_vars

\* a bundle whose payload was changed (so its hash is wrong) and whose context
\* is missing has been validated: the answer names the context
C33_Witness ==
    /\ validated.state = "done"
    /\ validated.of.state = "stripped"
    /\ validated.of.altered = "content"
    /\ validated.of.b.absent = {"context"}
    /\ validated.of.b.bundle_hash # computeBundleHash(validated.of.b.tez, validated.of.b.context)
    /\ validated.result = "Missing context array"

----------------------------------------------------------------------------
(* initIdentity and getIdentity on their own, over a DATA_DIR that holds
   none, one or both of the key files *)

PubFiles == {Absent, KeyFile(9, FALSE), KeyFile(9, TRUE)}
KeyFiles == {Absent, KeyFile(9, FALSE), KeyFile(8, FALSE)}

InitIdentityDir ==
    /\ now = 0
    /\ config = [federationEnabled |-> TRUE, federationMode |-> "allowlist"]
    /\ federatedServers = [h \in RemoteHosts |-> NoPeer]
    /\ cache = [h \in RemoteHosts |-> 0]
    /\ federationOutbox = <<>>
    /\ federatedTez = <<>>
    /\ th = [p \in Procs |-> Idle]
    /\ faults = 0
    /\ obs = <<>>
    /\ welcomeSentTo = {}
    /\ welcomes = [h \in RemoteHosts |-> 0]
    /\ welcomePost = [h \in RemoteHosts |-> "none"]
    /\ contacts = {}
    /\ tez = <<>>
    /\ tezContext = <<>>
    /\ tezRecipients = <<>>
    /\ req = [r \in Reqs |-> NoReq]
    /\ served = 0
    /\ accepted = {}
    /\ SigIdle
    /\ BundleIdle
    /\ DiscIdle
    /\ ApiIdle
    /\ keyFiles \in {[f \in {"server.pub", "server.key"} |->
                          IF f = "server.pub" THEN pub ELSE key] :
                         pub \in PubFiles, key \in KeyFiles}
    /\ identityCache = NoIdentity
    /\ idResult = NoIdResult
    /\ keygen = 0

NextIdentity ==
    \/ InitIdentity
    \/ GetIdentity
    \/ \E f \in {"server.pub", "server.key"} : Unlink(f)

SpecIdentity == InitIdentityDir /\ [][NextIdentity]_vars

BothFiles == existsSync("server.pub") /\ existsSync("server.key")

\* a call of initIdentity, of getIdentity, is made in this step
Loads == idResult'.op = "init" /\ (idResult' # idResult \/ keygen' # keygen)
Gets == idResult'.op = "get" /\ idResult' # idResult

\* C34: getIdentity throws while no identity was loaded; a load made while both
\* key files exist returns the public key of server.pub and the server id
\* derived from it and writes neither file; a keypair is generated and written
\* only by a load that finds a key file absent
C34_IdentityStable ==
    [][/\ (Gets /\ identityCache = NoIdentity) => idResult'.outcome = "throws"
       /\ (Loads /\ BothFiles) =>
              /\ keyFiles' = keyFiles
              /\ keygen' = keygen
              /\ idResult'.outcome = "returns"
              /\ idResult'.value.publicKey = keyFiles["server.pub"].pair
              /\ idResult'.value.serverId = deriveServerId(keyFiles["server.pub"].pair)
              /\ identityCache' = idResult'.value
       /\ (keygen' # keygen \/ \E f \in DOMAIN keyFiles :
                                   keyFiles'[f] # keyFiles[f] /\ keyFiles'[f] # Absent) =>
              Loads /\ ~BothFiles]_vars

\* the identity has been loaded again from the files a first load generated,
\* and a second pair was never generated
C34_Witness ==
    /\ keygen = 1
    /\ BothFiles
    /\ keyFiles["server.pub"].pair = 1
    /\ idResult = [op |-> "init", outcome |-> "returns", value |-> identityCache,
                   fromFiles |-> TRUE]
    /\ identityCache.publicKey = 1

----------------------------------------------------------------------------
(* The outbound engine against a remote inbox that remembers what it holds *)

LostProcs == {"route", "sweep1"}

NextLost ==
    \/ \E p \in Routes, hosts \in HostLists : StartRoute(p, hosts)
    \/ \E p \in Routes : RouteInsert(p)
    \/ \E p \in LostProcs : ReadEntry(p)
    \/ \E p \in LostProcs, network \in {"hit", "ok", "down"} : Discover(p, network)
    \/ \E p \in LostProcs, reaches \in BOOLEAN, observed \in BOOLEAN :
          Deliver(p, reaches, observed)
    \/ \E p \in LostProcs : OkInsert(p)
    \/ \E p \in LostProcs : OkAudit(p)
    \/ \E p \in LostProcs : ExpAudit(p)
    \/ \E p \in LostProcs \cap Sweeps : StartSweep(p)
    \/ \E p \in LostProcs \cap Sweeps : SweepFresh(p)
    \/ \E t \in Instants : Tick(t)

SpecLost == InitOut /\ [][NextLost]_vars

\* C35: an entry whose bundle the remote inbox accepted without the sender
\* seeing the answer, and whose retry was then answered with the duplicate
\* rejection, is delivered once that retry is over, and is never expired (no
\* local write of its attempts threw, its attempts were made one at a time,
\* each when due)
C35_LostResponseStillDelivered ==
    \A e \in Entries :
        (obs[e].duplicate /\ ~obs[e].faulted /\ ~obs[e].offSchedule
            /\ \A p \in Procs : InAttempt(p) => th[p].cur # e) =>
            federationOutbox[e].status = "delivered"

----------------------------------------------------------------------------
(* The inbox with two registered peers, h1 (s1, k1) and h2 (s2, k2): each
   sends bundles under its own name, and h2 also one that names h1 *)

SenderInputs ==
    {GoodInput,
     [GoodInput EXCEPT !.keyId = "s2", !.signedBy = "k2",
                       !.bundle = [SomeBundle EXCEPT !.hash = 1, !.sender_server = "h2",
                                                     !.sender_server_id = "s2"]],
     [GoodInput EXCEPT !.keyId = "s2", !.signedBy = "k2",
                       !.bundle = [SomeBundle EXCEPT !.hash = 3, !.context = <<"ok">>]]}

NextSender ==
    \/ \E r \in Reqs, in \in SenderInputs : Receive(r, in)
    \/ \E r \in Reqs : DupCheck(r)
    \/ \E r \in Reqs : Resolve(r)
    \/ \E r \in Reqs : InsertTez(r)
    \/ \E r \in Reqs : InsertContext(r)
    \/ \E r \in Reqs : InsertRecipient(r)
    \/ \E r \in Reqs : InsertFederated(r)
    \/ \E r \in Reqs : UpdateLastSeen(r)
    \/ \E r \in Reqs : Respond200(r)
    \/ \E user \in LocalUsers : RegisterContact(user)
    \/ Handshake("h1", "s1", "k1")
    \/ Handshake("h2", "s2", "k2")
    \/ \E h \in RemoteHosts : AdminSetTrust(h, "trusted")

SpecSender == InitIn /\ [][NextSender]_vars

\* C36: the inbound record written for an accepted bundle, and the sender host
\* and sender node id the bundle states, are those of the peer whose stored key
\* verified the request
C36_SenderIsVerifiedPeer ==
    [][\A r \in Reqs :
          (req[r].pc = "insertFederated" /\ Len(federatedTez') > Len(federatedTez)) =>
              /\ federatedTez'[Len(federatedTez')].remoteHost = req[r].sender
              /\ req[r].bundle.sender_server = req[r].sender
              /\ req[r].bundle.sender_server_id = req[r].auth.keyId]_vars

----------------------------------------------------------------------------
(* Deliveries and welcomes to a host whose string and DNS answer are drawn *)

NextGuard ==
    \/ \E p \in Routes, hosts \in HostLists : StartRoute(p, hosts)
    \/ \E p \in Routes : RouteInsert(p)
    \/ \E p \in Routes : ReadEntry(p)
    \/ \E p \in Routes, network \in {"hit", "ok", "down"} : DiscoverChecked(p, network)
    \/ \E p \in Routes, ok \in BOOLEAN : Respond(p, ok)
    \/ \E p \in Routes : OkInsert(p)
    \/ \E p \in Routes : OkAudit(p)
    \/ \E h \in DiscHosts : Handshake(h, "s1", "k1")
    \/ \E h \in DiscHosts : AdminSetTrust(h, "trusted")
    \/ \E h \in DiscHosts, network \in {"ok", "down"} : WelcomeDeliver(h, network)

SpecGuard == InitDiscover /\ [][NextGuard]_vars

\* C37: no delivery POST and no welcome POST goes to a host that validateHost
\* rejects as loopback, private, link-local or local-only
C37_NoPostToGuardedHost ==
    /\ \A p \in Procs :
           th[p].pc = "post" =>
               validateHost(dns[federationOutbox[th[p].cur].targetHost]) # "SSRF blocked"
    /\ \A h \in RemoteHosts :
           welcomePost[h] = "posted" => validateHost(dns[h]) # "SSRF blocked"

----------------------------------------------------------------------------
(* The rows of federated_servers as the inbox's sender lookup sees them *)

\* C38: no two rows of federated_servers carry the same server_id, so the
\* lookup by keyId selects at most one row
C38_NodeIdsUnique ==
    \A keyId \in {party[1] : party \in Parties} : Cardinality(SenderRows(keyId)) <= 1

----------------------------------------------------------------------------
(* What a rejected inbox request leaves behind: the inbound pipeline with
   time passing between the requests *)

NextFrame ==
    \/ \E r \in Reqs, in \in InboxInputs : Receive(r, in)
    \/ \E r \in Reqs : DupCheck(r)
    \/ \E r \in Reqs : Resolve(r)
    \/ \E r \in Reqs : InsertTez(r)
    \/ \E r \in Reqs : InsertContext(r)
    \/ \E r \in Reqs : InsertRecipient(r)
    \/ \E r \in Reqs : InsertFederated(r)
    \/ \E r \in Reqs : UpdateLastSeen(r)
    \/ \E r \in Reqs : Respond200(r)
    \/ \E user \in LocalUsers : RegisterContact(user)
    \/ \E h \in InHosts : Handshake(h, "s1", "k1")
    \/ \E h \in InHosts, level \in TrustLevels : AdminSetTrust(h, level)
    \/ Elapse(MaxTime)

SpecFrame == InitIn /\ [][NextFrame]_vars

\* the step answers request r with a 4xx status
Rejects(r) ==
    /\ req'[r].pc = "done"
    /\ req'[r].resp \in 400..499
    /\ req'[r] # req[r] \/ served' # served

\* the step changes lastSeenAt of the row of host h
Touches(h) ==
    /\ Registered(h)
    /\ federatedServers'[h] # NoPeer
    /\ federatedServers'[h].lastSeenAt # federatedServers[h].lastSeenAt

====
